---- MODULE Spec2Model ----
(***************************************************************************)
(* find-all-js-imports: the recursive traversal engine of                  *)
(* src/library/index.js (findAllImports, findAllImportsWithCallbackSync,   *)
(* findAllImportsWithCallbackAsync) with the helpers of                    *)
(* src/library/utilities/helpers.js.                                       *)
(*                                                                         *)
(* File paths are the numbers 1..NumFiles.  A specifier is modelled by the *)
(* path the external resolver gives for it, 0 standing for a falsy         *)
(* resolution.  The file system and the parser are external: what          *)
(* fs.existsSync and getSourceCodeFromFilePath answer for a path is drawn  *)
(* the first time the engine asks, and is kept in disk from then on.       *)
(***************************************************************************)
EXTENDS Integers, Sequences, FiniteSets, TLC

(* ----------------------------- bounds --------------------------------- *)

\* Number of file paths of the modelled file system.
NumFiles == 3

\* Longest top-level statement list of one file.
MaxBody == 2

\* Most top-level statements over all the files read in one run.
MaxStatements == 3

\* Most callbacks of one run that return a promise still pending.
MaxDeferred == 1

\* Most top-level calls a caller makes one after the other on one ledger.
MaxCalls == 2

\* Largest depth option a caller passes to a top-level call.
MaxStartDepth == 1

\* Largest explicit maxDepth option a caller passes (besides the default).
MaxMaxDepth == 2

\* The default of the maxDepth option.
DefaultMaxDepth == 100

Files == 1..NumFiles

MaxDepths == (0..MaxMaxDepth) \cup {DefaultMaxDepth}

Variants == {"plain", "sync", "async"}

VARIABLES
    variant,      \* the entry point called: plain, sync or async
    input,        \* the top-level call's arguments, by their JavaScript types
    maxDepth,     \* options.maxDepth of the top-level call
    disk,         \* what the file system and the parser answered, per path
    visitedSet,   \* the visited ledger (one Set instance, shared by reference)
    accumulator,  \* callbackConfig.accumulator: the paths appended by callbacks
    stack,        \* the engine frames of the call, the innermost last
    result,       \* what the top-level call gave its caller
    deferred,     \* per path: the promise its sync callback returned, if any
    call,         \* the top-level call under way: which one, and what it found
    other,        \* a second top-level call on the same ledger, while suspended
    log           \* history: the engine's events, in order

vars == <<variant, input, maxDepth, disk, visitedSet, accumulator, stack, result, deferred, call, other, log>>

(* --------------------------- result shapes ---------------------------- *)

\* { ...successTrue, ... }: a success without the objects it refers to; only
\* the presence of the accumulator field is recorded.
successTrue(withAccumulator) ==
    [success |-> TRUE, errors |-> <<>>, accumulator |-> withAccumulator]

Message(text, file) == [text |-> text, file |-> file]

\* Mutant: the failure is built without its error.
makeSuccessFalseNoError(message) ==
    [success |-> FALSE, errors |-> <<>>, accumulator |-> FALSE]

makeSuccessFalseTypeError(message) ==
    [success |-> FALSE,
     errors |-> <<[type |-> "error", message |-> message]>>,
     accumulator |-> FALSE]

\* A frame that has not returned.
NoResult == [success |-> FALSE, errors |-> <<>>, accumulator |-> FALSE]

(* ------------------------- the parsed statements ---------------------- *)

NoExpression == [type |-> "none", callee |-> "none", argument |-> "none"]

\* import x from "<specifier>"
ImportDeclarationNode(specifier) ==
    [type |-> "ImportDeclaration", expression |-> NoExpression, specifier |-> specifier,
     nested |-> 0]

\* a top-level node of type ImportExpression
ImportExpressionNode(specifier) ==
    [type |-> "ImportExpression", expression |-> NoExpression, specifier |-> specifier,
     nested |-> 0]

\* require("<specifier>")
RequireNode(specifier) ==
    [type |-> "ExpressionStatement",
     expression |-> [type |-> "CallExpression", callee |-> "require", argument |-> "Literal"],
     specifier |-> specifier, nested |-> 0]

\* require(name): an expression statement that is no require call of a literal
OtherNode ==
    [type |-> "ExpressionStatement",
     expression |-> [type |-> "CallExpression", callee |-> "require", argument |-> "Identifier"],
     specifier |-> 0, nested |-> 0]

\* if (x) require("<specifier>"): a statement that is no import itself and
\* holds one further down the tree.
NestedNode(specifier) ==
    [type |-> "IfStatement", expression |-> NoExpression, specifier |-> 0,
     nested |-> specifier]

\* The paths the modelled nested imports resolve to.
NestedSpecifiers == {NumFiles - 1}

\* A specifier is the path it resolves to; 0 resolves to nothing.
Specifiers == 0..NumFiles

Nodes ==
    {ImportDeclarationNode(s) : s \in Specifiers}
        \cup {ImportExpressionNode(s) : s \in Specifiers}
        \cup {RequireNode(s) : s \in Specifiers}
        \cup {OtherNode}
        \cup {NestedNode(s) : s \in NestedSpecifiers}

nodeIsImportDeclaration(node) == node.type = "ImportDeclaration"

nodeIsImportExpression(node) == node.type = "ImportExpression"

nodeIsRequireCall(node) ==
    /\ node.type = "ExpressionStatement"
    /\ node.expression.type = "CallExpression"
    /\ node.expression.callee = "require"
    /\ node.expression.argument = "Literal"

\* resolveImportingPath(currentDir, importPath, cwd): the external resolver's
\* answer, 0 when it is falsy.
resolveImportingPath(importPath) == importPath

(* ------------------- the file system and the parser ------------------- *)

Unread == [known |-> FALSE, exists |-> FALSE, ast |-> FALSE, body |-> <<>>]

MissingFile == [known |-> TRUE, exists |-> FALSE, ast |-> FALSE, body |-> <<>>]

UnparsableFile == [known |-> TRUE, exists |-> TRUE, ast |-> FALSE, body |-> <<>>]

SourceFile(body) == [known |-> TRUE, exists |-> TRUE, ast |-> TRUE, body |-> body]

Bodies(n) == UNION {[1..k -> Nodes] : k \in 0..n}

RECURSIVE StatementsUpTo(_, _)
StatementsUpTo(d, f) ==
    IF f = 0 THEN 0 ELSE Len(d[f].body) + StatementsUpTo(d, f - 1)

\* The top-level statements of all the files read so far.
StatementsRead == StatementsUpTo(disk, NumFiles)

Min(a, b) == IF a < b THEN a ELSE b

\* What fs.existsSync and the parser can answer for a path not read before.
NewAnswers ==
    {MissingFile, UnparsableFile}
        \cup {SourceFile(b) : b \in Bodies(Min(MaxBody, MaxStatements - StatementsRead))}

(* ------------------------------ validation ---------------------------- *)

\* A value passed as callbackConfig: what kind of JavaScript value it is, and
\* the kinds of its callback and accumulator properties.
CallbackConfig(kind, callback, acc) ==
    [kind |-> kind, callback |-> callback, accumulator |-> acc]

\* The arguments of a well-typed call with a valid callbackConfig, as the
\* engine sees them once the parameter defaults are applied.
ValidInput ==
    [filePath |-> "string", cwd |-> "string", visitedSet |-> "Set",
     depth |-> "number", maxDepth |-> "number", elements |-> "string",
     callbackConfig |-> CallbackConfig("object", "function", "array"),
     startDepth |-> 0]

\* The kinds of value a caller may pass as callbackConfig; "false", "zero" and
\* "emptyString" are the falsy primitives.
ConfigKinds ==
    {"undefined", "null", "false", "zero", "emptyString",
     "number", "string", "function", "array", "object"}

PropertyKinds == {"undefined", "function", "string", "object", "array"}

CallbackConfigs ==
    {CallbackConfig(k, c, a) : k \in ConfigKinds, c \in PropertyKinds, a \in PropertyKinds}

\* The callbackConfig values the traversal is run on: every kind of value,
\* and every kind of callback property on an object.
EngineCallbackConfigs ==
    {c \in CallbackConfigs :
        /\ c.accumulator = "array"
        /\ c.kind # "object" => c.callback = "undefined"}

\* The arguments of a top-level call, well typed or not, with the depth
\* option left to its default of 0 (startDepth).  findAllImports has no
\* callbackConfig parameter.
Inputs(v) ==
    {in \in [filePath : {"string", "number"}, cwd : {"string", "number"},
             visitedSet : {"Set", "Array"}, depth : {"number", "string"},
             maxDepth : {"number", "string"}, elements : {"string", "number"},
             callbackConfig : EngineCallbackConfigs, startDepth : {0}] :
        v = "plain" => in.callbackConfig = ValidInput.callbackConfig}

ZodFailure ==
    [success |-> FALSE,
     errors |-> <<[type |-> "error",
                   message |-> Message("Config data could not pass validation from zod.", 0)],
                  [type |-> "error",
                   message |-> Message("All values within visitedSet should be strings.", 0)]>>,
     accumulator |-> FALSE]

\* Mutant: the depth test lets one more level through.
validateFilePathAndOptionsOneDeeper(filePath, in, depth, maxD, file) ==
    IF in.filePath # "string"
    THEN makeSuccessFalseTypeError(Message("filePath is supposed to be a string.", 0))
    ELSE IF in.cwd # "string"
    THEN makeSuccessFalseTypeError(Message("cwd is supposed to be a string.", 0))
    ELSE IF in.visitedSet # "Set"
    THEN makeSuccessFalseTypeError(Message("visitedSet is supposed to be a Set.", 0))
    ELSE IF in.depth # "number"
    THEN makeSuccessFalseTypeError(Message("depth is supposed to be a number.", 0))
    ELSE IF in.maxDepth # "number"
    THEN makeSuccessFalseTypeError(Message("maxDepth is supposed to be a number.", 0))
    ELSE IF in.elements # "string"
    THEN ZodFailure
    ELSE IF depth > maxD + 1
    THEN makeSuccessFalseTypeError(Message("Max depth reached", filePath))
    ELSE IF ~file.exists
    THEN makeSuccessFalseTypeError(Message("File not found", filePath))
    ELSE IF ~file.ast
    THEN makeSuccessFalseTypeError(Message("Failed to parse AST", filePath))
    ELSE successTrue(FALSE)

\* Mutant: the file is looked for before the depth is tested.
validateFilePathAndOptionsFileFirst(filePath, in, depth, maxD, file) ==
    IF in.filePath # "string"
    THEN makeSuccessFalseTypeError(Message("filePath is supposed to be a string.", 0))
    ELSE IF in.cwd # "string"
    THEN makeSuccessFalseTypeError(Message("cwd is supposed to be a string.", 0))
    ELSE IF in.visitedSet # "Set"
    THEN makeSuccessFalseTypeError(Message("visitedSet is supposed to be a Set.", 0))
    ELSE IF in.depth # "number"
    THEN makeSuccessFalseTypeError(Message("depth is supposed to be a number.", 0))
    ELSE IF in.maxDepth # "number"
    THEN makeSuccessFalseTypeError(Message("maxDepth is supposed to be a number.", 0))
    ELSE IF in.elements # "string"
    THEN ZodFailure
    ELSE IF ~file.exists
    THEN makeSuccessFalseTypeError(Message("File not found", filePath))
    ELSE IF ~file.ast
    THEN makeSuccessFalseTypeError(Message("Failed to parse AST", filePath))
    ELSE IF depth > maxD
    THEN makeSuccessFalseTypeError(Message("Max depth reached", filePath))
    ELSE successTrue(FALSE)

\* validateFilePathAndOptions(filePath, { cwd, visitedSet, depth, maxDepth }):
\* in gives the arguments' types, file what the file system and the parser
\* answer for filePath.
validateFilePathAndOptions(filePath, in, depth, maxD, file) ==
    IF in.filePath # "string"
    THEN makeSuccessFalseTypeError(Message("filePath is supposed to be a string.", 0))
    ELSE IF in.cwd # "string"
    THEN makeSuccessFalseTypeError(Message("cwd is supposed to be a string.", 0))
    ELSE IF in.visitedSet # "Set"
    THEN makeSuccessFalseTypeError(Message("visitedSet is supposed to be a Set.", 0))
    ELSE IF in.depth # "number"
    THEN makeSuccessFalseTypeError(Message("depth is supposed to be a number.", 0))
    ELSE IF in.maxDepth # "number"
    THEN makeSuccessFalseTypeError(Message("maxDepth is supposed to be a number.", 0))
    ELSE IF in.elements # "string"
    THEN ZodFailure
    ELSE IF depth > maxD
    THEN makeSuccessFalseTypeError(Message("Max depth reached", filePath))
    ELSE IF ~file.exists
    THEN makeSuccessFalseTypeError(Message("File not found", filePath))
    ELSE IF ~file.ast
    THEN makeSuccessFalseTypeError(Message("Failed to parse AST", filePath))
    ELSE successTrue(FALSE)

\* Whether the validation of this call gets as far as fs.existsSync.
ReadsDisk(filePath, in, depth, maxD) ==
    validateFilePathAndOptions(filePath, in, depth, maxD, MissingFile)
        = makeSuccessFalseTypeError(Message("File not found", filePath))

\* JavaScript's truthiness, typeof and Array.isArray on the kinds of value a
\* caller may pass as callbackConfig.
Falsy(kind) == kind \in {"undefined", "null", "false", "zero", "emptyString"}

TypeOf(kind) ==
    IF kind \in {"null", "array", "object"} THEN "object"
    ELSE IF kind = "false" THEN "boolean"
    ELSE IF kind = "zero" THEN "number"
    ELSE IF kind = "emptyString" THEN "string"
    ELSE kind

IsArray(kind) == kind = "array"

\* Mutant: the Array.isArray test is left out.
validateCallbackConfigAcceptsArrays(callbackConfig) ==
    IF \/ Falsy(callbackConfig.kind)
       \/ TypeOf(callbackConfig.kind) # "object"
    THEN makeSuccessFalseTypeError(Message("Invalid callbackConfig format.", 0))
    ELSE IF TypeOf(callbackConfig.callback) # "function"
    THEN makeSuccessFalseTypeError(Message("Invalid callbackConfig.callback format.", 0))
    ELSE successTrue(FALSE)

\* validateCallbackConfig(callbackConfig)
validateCallbackConfig(callbackConfig) ==
    IF \/ Falsy(callbackConfig.kind)
       \/ TypeOf(callbackConfig.kind) # "object"
       \/ IsArray(callbackConfig.kind)
    THEN makeSuccessFalseTypeError(Message("Invalid callbackConfig format.", 0))
    ELSE IF TypeOf(callbackConfig.callback) # "function"
    THEN makeSuccessFalseTypeError(Message("Invalid callbackConfig.callback format.", 0))
    ELSE successTrue(FALSE)

(* --------------------------- the small helpers ------------------------ *)

\* Mutant: the visited check never finds the path.
visitedSetNeverHasPreviousVisit(set, filePath) == FALSE

visitedSetHasPreviousVisit(set, filePath) == filePath \in set

\* Mutant: the path is not recorded.
updateVisitedSetDropped(set, filePath) == set

\* Mutant: the ledger is started afresh with the path.
updateVisitedSetReplaces(set, filePath) == {filePath}

updateVisitedSet(set, filePath) == set \cup {filePath}

\* Mutant: the next round is counted two levels deeper.
makeFindAllImportsOptionsTwoDeeper(depth) == depth + 2

\* makeFindAllImportsOptions: the depth of the next round.
makeFindAllImportsOptions(depth) == depth + 1

(* ------------------------------- frames ------------------------------- *)

\* The objects a frame holds by reference, and its cwd and maxDepth options.
\* The ledger of the top-level call
\* (the caller's Set, or the new Set() of the parameter default) and the
\* caller's callbackConfig, whose accumulator property is the accumulator.
TopLevelHandles ==
    [visitedSet |-> "options.visitedSet",
     callbackConfig |-> IF variant = "plain" THEN "none" ELSE "callbackConfig",
     cwd |-> "options.cwd",
     maxDepth |-> maxDepth]

\* The Set validateFilePathAndOptions returns as visitedSet on success:
\* visitedSetResults.data, which zod builds anew from the one it parsed.
ValidatedVisitedSet == "visitedSetResults.data"

\* Mutant: the engine goes on with the Set returned by the validation.
visitedSetInUseValidated(handles) == ValidatedVisitedSet

\* The Set a frame checks, updates, hands to the next round and returns: its
\* own visitedSet parameter (only sourceCode is taken from the validation).
visitedSetInUse(handles) == handles.visitedSet

\* makeProcessImportSettings and makeFindAllImportsOptions hand the Set, cwd
\* and maxDepth on as they are, and the loop hands on callbackConfig.
\* Mutant: the next round falls back on the default maxDepth.
HandlesOfNextRoundDefaultMaxDepth(handles) ==
    [visitedSet |-> visitedSetInUse(handles), callbackConfig |-> handles.callbackConfig,
     cwd |-> handles.cwd, maxDepth |-> DefaultMaxDepth]

HandlesOfNextRound(handles) ==
    [visitedSet |-> visitedSetInUse(handles), callbackConfig |-> handles.callbackConfig,
     cwd |-> handles.cwd, maxDepth |-> handles.maxDepth]

Frame(filePath, depth, handles) ==
    [filePath |-> filePath, depth |-> depth, handles |-> handles,
     pc |-> "enter", idx |-> 1, rv |-> NoResult]

Top == stack[Len(stack)]

SetTop(frame) == [stack EXCEPT ![Len(stack)] = frame]

\* The innermost frame is about to return value.
Returning(value) == SetTop([Top EXCEPT !.pc = "return", !.rv = value])

Event(ev, file, depth, idx, acc) ==
    [ev |-> ev, file |-> file, depth |-> depth, idx |-> idx, acc |-> acc]

WithCallback == variant # "plain"

\* { ...successTrue, visitedSet } and
\* { ...successTrue, visitedSet, accumulator: callbackConfig.accumulator }:
\* the success an engine frame or processImport returns, with the objects it
\* refers to.
Success(handles) ==
    [success |-> TRUE, errors |-> <<>>, accumulator |-> WithCallback,
     visitedSet |-> visitedSetInUse(handles),
     accumulatorOf |-> handles.callbackConfig]

(* -------------------------------- Init -------------------------------- *)

\* The top-level call number n: the ledger it was given, the length of the
\* log when it was made, whether the files changed since the call before, and
\* what the call before returned.
TopLevelCall(n, ledger, from, changed, previous) ==
    [number |-> n, visitedSet |-> ledger, from |-> from, changed |-> changed,
     previous |-> previous]

\* No call was made yet.
NoCall == TopLevelCall(0, {}, 0, FALSE, NoResult)

\* Of two top-level calls made on one ledger, the one that is not running:
\* its frames and its result so far, the path it was called on (0 while
\* there is one call only), and which of the two calls is the running one.
OtherCall(running, frames, value, root) ==
    [running |-> running, stack |-> frames, result |-> value, root |-> root]

\* There is one top-level call only.
NoOther == OtherCall(1, <<>>, [state |-> "idle", value |-> NoResult], 0)

Init ==
    /\ variant \in Variants
    /\ input \in Inputs(variant)
    /\ maxDepth \in MaxDepths
    /\ disk = [f \in Files |-> Unread]
    /\ visitedSet = {}
    /\ accumulator = <<>>
    /\ stack = <<>>
    /\ result = [state |-> "idle", value |-> NoResult]
    /\ deferred = [f \in Files |-> "none"]
    /\ call = NoCall
    /\ other = NoOther
    /\ log = <<>>

(* ------------------------------- actions ------------------------------ *)

\* The caller calls the entry point on filePath, at the depth it passes (0
\* when it passes none), with the ledger it holds (a new Set when it holds
\* none).
Call(filePath) ==
    /\ result.state = "idle"
    /\ stack' = <<Frame(filePath, input.startDepth, TopLevelHandles)>>
    /\ result' = [state |-> "running", value |-> NoResult]
    /\ call' = TopLevelCall(1, visitedSet, Len(log), FALSE, NoResult)
    /\ UNCHANGED <<other, variant, input, maxDepth, deferred, disk, visitedSet, accumulator, log>>

\* Once a call has returned, the caller calls the entry point again with the
\* same arguments: the same ledger and the same callbackConfig.
CallAgain(filePath) ==
    /\ result.state = "returned"
    /\ call.number < MaxCalls
    /\ stack' = <<Frame(filePath, input.startDepth, TopLevelHandles)>>
    /\ result' = [state |-> "running", value |-> NoResult]
    /\ call' = TopLevelCall(call.number + 1, visitedSet, Len(log), call.changed, result.value)
    /\ UNCHANGED <<other, variant, input, maxDepth, deferred, disk, visitedSet, accumulator, log>>

\* Between two calls the file the caller traverses from is deleted, or
\* edited into something the parser rejects.
FileSystemChanges(filePath) ==
    /\ result.state = "returned"
    /\ call.number < MaxCalls
    /\ ~call.changed
    /\ disk[filePath].known /\ disk[filePath].exists /\ disk[filePath].ast
    /\ \E file \in {MissingFile, UnparsableFile} :
         disk' = [disk EXCEPT ![filePath] = file]
    /\ call' = [call EXCEPT !.changed = TRUE]
    /\ UNCHANGED <<other, variant, input, maxDepth, deferred, visitedSet, accumulator, stack, result, log>>

\* What the file system and the parser answer to this frame's validation.
DiskAnswers(filePath, depth) ==
    IF ~ReadsDisk(filePath, input, depth, Top.handles.maxDepth) \/ disk[filePath].known
    THEN {disk[filePath]}
    ELSE NewAnswers

\* Mutant: the statements are scanned without the callback being called.
AfterInsertSkipsCallback == "scan"

\* The state of a frame right after its path was added to the ledger.
AfterInsert == IF WithCallback THEN "callback" ELSE "scan"

\* Mutant: the path is recorded in the ledger on entry, before the validations.
EnterUpdatesFirst ==
    /\ stack # <<>>
    /\ Top.pc = "enter"
    /\ LET f == Top.filePath
           d == Top.depth
           entered == Event("enter", f, d, 0, <<>>)
       IN \E file \in DiskAnswers(f, d) :
            LET v == validateFilePathAndOptions(f, input, d, Top.handles.maxDepth, file)
                c == validateCallbackConfig(input.callbackConfig)
            IN /\ disk' = [disk EXCEPT ![f] = file]
               /\ visitedSet' = updateVisitedSet(visitedSet, f)
               /\ IF ~v.success
                  THEN /\ stack' = Returning(v)
                       /\ log' = log \o <<entered, Event("fail", f, d, 0, <<>>)>>
                  ELSE IF WithCallback /\ ~c.success
                  THEN /\ stack' = Returning(c)
                       /\ log' = log \o <<entered, Event("cfgfail", f, d, 0, <<>>)>>
                  ELSE IF visitedSetHasPreviousVisit(visitedSet, f)
                  THEN /\ stack' = Returning(Success(Top.handles))
                       /\ log' = log \o <<entered, Event("revisit", f, d, 0, <<>>)>>
                  ELSE /\ stack' = SetTop([Top EXCEPT !.pc = AfterInsert])
                       /\ log' = log \o <<entered, Event("add", f, d, 0, <<>>)>>
    /\ UNCHANGED <<other, call, variant, input, maxDepth, deferred, accumulator, result>>

\* Mutant: callbackConfig is validated after the visited check.
EnterValidatesConfigLast ==
    /\ stack # <<>>
    /\ Top.pc = "enter"
    /\ LET f == Top.filePath
           d == Top.depth
           entered == Event("enter", f, d, 0, <<>>)
       IN \E file \in DiskAnswers(f, d) :
            LET v == validateFilePathAndOptions(f, input, d, Top.handles.maxDepth, file)
                c == validateCallbackConfig(input.callbackConfig)
            IN /\ disk' = [disk EXCEPT ![f] = file]
               /\ IF ~v.success
                  THEN /\ stack' = Returning(v)
                       /\ log' = log \o <<entered, Event("fail", f, d, 0, <<>>)>>
                       /\ UNCHANGED visitedSet
                  ELSE IF visitedSetHasPreviousVisit(visitedSet, f)
                  THEN /\ stack' = Returning(Success(Top.handles))
                       /\ log' = log \o <<entered, Event("revisit", f, d, 0, <<>>)>>
                       /\ UNCHANGED visitedSet
                  ELSE IF WithCallback /\ ~c.success
                  THEN /\ stack' = Returning(c)
                       /\ log' = log \o <<entered, Event("cfgfail", f, d, 0, <<>>)>>
                       /\ UNCHANGED visitedSet
                  ELSE /\ visitedSet' = updateVisitedSet(visitedSet, f)
                       /\ stack' = SetTop([Top EXCEPT !.pc = AfterInsert])
                       /\ log' = log \o <<entered, Event("add", f, d, 0, <<>>)>>
    /\ UNCHANGED <<other, call, variant, input, maxDepth, deferred, accumulator, result>>

\* Mutant: the visited check comes first, before the validations.
EnterChecksVisitedFirst ==
    /\ stack # <<>>
    /\ Top.pc = "enter"
    /\ LET f == Top.filePath
           d == Top.depth
           entered == Event("enter", f, d, 0, <<>>)
       IN IF visitedSetHasPreviousVisit(visitedSet, f)
          THEN /\ stack' = Returning(Success(Top.handles))
               /\ log' = log \o <<entered, Event("revisit", f, d, 0, <<>>)>>
               /\ UNCHANGED <<visitedSet, disk>>
          ELSE \E file \in DiskAnswers(f, d) :
            LET v == validateFilePathAndOptions(f, input, d, Top.handles.maxDepth, file)
                c == validateCallbackConfig(input.callbackConfig)
            IN /\ disk' = [disk EXCEPT ![f] = file]
               /\ IF ~v.success
                  THEN /\ stack' = Returning(v)
                       /\ log' = log \o <<entered, Event("fail", f, d, 0, <<>>)>>
                       /\ UNCHANGED visitedSet
                  ELSE IF WithCallback /\ ~c.success
                  THEN /\ stack' = Returning(c)
                       /\ log' = log \o <<entered, Event("cfgfail", f, d, 0, <<>>)>>
                       /\ UNCHANGED visitedSet
                  ELSE /\ visitedSet' = updateVisitedSet(visitedSet, f)
                       /\ stack' = SetTop([Top EXCEPT !.pc = AfterInsert])
                       /\ log' = log \o <<entered, Event("add", f, d, 0, <<>>)>>
    /\ UNCHANGED <<other, call, variant, input, maxDepth, deferred, accumulator, result>>

\* An engine frame from its entry to the ledger insertion: validation, the
\* validation of callbackConfig, the visited check, updateVisitedSet.
Enter ==
    /\ stack # <<>>
    /\ Top.pc = "enter"
    /\ LET f == Top.filePath
           d == Top.depth
           entered == Event("enter", f, d, 0, <<>>)
       IN \E file \in DiskAnswers(f, d) :
            LET v == validateFilePathAndOptions(f, input, d, Top.handles.maxDepth, file)
                c == validateCallbackConfig(input.callbackConfig)
            IN /\ disk' = [disk EXCEPT ![f] = file]
               /\ IF ~v.success
                  THEN /\ stack' = Returning(v)
                       /\ log' = log \o <<entered, Event("fail", f, d, 0, <<>>)>>
                       /\ UNCHANGED visitedSet
                  ELSE IF WithCallback /\ ~c.success
                  THEN /\ stack' = Returning(c)
                       /\ log' = log \o <<entered, Event("cfgfail", f, d, 0, <<>>)>>
                       /\ UNCHANGED visitedSet
                  ELSE IF visitedSetHasPreviousVisit(visitedSet, f)
                  THEN /\ stack' = Returning(Success(Top.handles))
                       /\ log' = log \o <<entered, Event("revisit", f, d, 0, <<>>)>>
                       /\ UNCHANGED visitedSet
                  ELSE /\ visitedSet' = updateVisitedSet(visitedSet, f)
                       /\ stack' = SetTop([Top EXCEPT !.pc = AfterInsert])
                       /\ log' = log \o <<entered, Event("add", f, d, 0, <<>>)>>
    /\ UNCHANGED <<other, call, variant, input, maxDepth, deferred, accumulator, result>>

\* The callback's own effect on the accumulator: it records the file it saw.
CallbackMutation(acc, filePath) == Append(acc, filePath)

\* Mutant: the catch block swallows the callback's error.
CallbackFailureSwallowed(filePath) == successTrue(TRUE)

CallbackFailure(filePath) ==
    makeSuccessFalseTypeError(Message("Callback error", filePath))

\* The promises returned by sync callbacks so far.
Deferrals == {f \in Files : deferred[f] # "none"}

\* What the sync callback can do before control comes back: return, throw,
\* or return a promise that is still pending.
SyncOutcomes ==
    {"returns", "throws"}
        \cup (IF Cardinality(Deferrals) < MaxDeferred THEN {"defers"} ELSE {})

\* findAllImportsWithCallbackSync, the try block: the callback is called and
\* what it returns is dropped; only a throw is caught.  "settled" records that
\* the call has returned.
CallbackSync ==
    /\ stack # <<>>
    /\ variant = "sync"
    /\ Top.pc = "callback"
    /\ LET f == Top.filePath
           called == Event("callback", f, Top.depth, 0, accumulator)
       IN \E outcome \in SyncOutcomes :
            IF outcome = "throws"
            THEN /\ stack' = Returning(CallbackFailure(f))
                 /\ log' = log \o <<called, Event("cbfail", f, Top.depth, 0, <<>>)>>
                 /\ UNCHANGED <<accumulator, deferred>>
            ELSE /\ accumulator' = CallbackMutation(accumulator, f)
                 /\ stack' = SetTop([Top EXCEPT !.pc = "scan"])
                 /\ log' = log \o <<called, Event("settled", f, Top.depth, 0, <<>>)>>
                 /\ deferred' = IF outcome = "defers"
                                THEN [deferred EXCEPT ![f] = "pending"]
                                ELSE deferred
    /\ UNCHANGED <<other, call, variant, input, maxDepth, disk, visitedSet, result>>

\* Mutant: the rejection of the promise a sync callback returned is reported
\* as the callback's failure.
DeferredRejectionReported(current, filePath) ==
    IF current.state = "thrown" THEN current
    ELSE [state |-> "returned", value |-> CallbackFailure(filePath)]

\* What the rejection of the promise a sync callback returned does to the
\* call's result: nothing, no one holds the promise.
DeferredRejection(current, filePath) == current

\* The promise a sync callback returned settles, at any later time.
DeferredSettle ==
    \E f \in Files :
        /\ deferred[f] = "pending"
        /\ \E outcome \in {"fulfilled", "rejected"} :
             /\ deferred' = [deferred EXCEPT ![f] = outcome]
             /\ result' = IF outcome = "rejected"
                           THEN DeferredRejection(result, f)
                           ELSE result
        /\ UNCHANGED <<other, call, variant, input, maxDepth, disk, visitedSet, accumulator, stack, log>>

\* Mutant: the promise of the callback is not awaited.
AfterCallbackStartNotAwaited == "scan"

\* The state of an async frame whose callback has returned its promise.
AfterCallbackStart == "await"

\* findAllImportsWithCallbackAsync: the callback is called; it throws at once
\* or returns a promise the frame awaits.
CallbackStart ==
    /\ stack # <<>>
    /\ variant = "async"
    /\ Top.pc = "callback"
    /\ LET f == Top.filePath
           called == Event("callback", f, Top.depth, 0, accumulator)
       IN \E outcome \in {"pending", "throws"} :
            IF outcome = "pending"
            THEN /\ stack' = SetTop([Top EXCEPT !.pc = AfterCallbackStart])
                 /\ log' = Append(log, called)
            ELSE /\ stack' = Returning(CallbackFailure(f))
                 /\ log' = log \o <<called, Event("cbfail", f, Top.depth, 0, <<>>)>>
    /\ UNCHANGED <<other, call, variant, input, maxDepth, deferred, disk, visitedSet, accumulator, result>>

\* The awaited promise of the callback settles.
CallbackSettle ==
    /\ stack # <<>>
    /\ variant = "async"
    /\ Top.pc = "await"
    /\ LET f == Top.filePath
       IN \E outcome \in {"fulfilled", "rejected"} :
            IF outcome = "fulfilled"
            THEN /\ accumulator' = CallbackMutation(accumulator, f)
                 /\ stack' = SetTop([Top EXCEPT !.pc = "scan"])
                 /\ log' = Append(log, Event("settled", f, Top.depth, 0, <<>>))
            ELSE /\ stack' = Returning(CallbackFailure(f))
                 /\ log' = Append(log, Event("cbfail", f, Top.depth, 0, <<>>))
                 /\ UNCHANGED accumulator
    /\ UNCHANGED <<other, call, variant, input, maxDepth, deferred, disk, visitedSet, result>>

\* Which of the loop's three tests the node passes.  The tests read node.type,
\* so a node passes at most one of them.
Branch(node) ==
    IF nodeIsImportDeclaration(node) THEN "ImportDeclaration"
    ELSE IF nodeIsImportExpression(node) THEN "ImportExpression"
    ELSE IF nodeIsRequireCall(node) THEN "RequireCall"
    ELSE "none"

\* The parameters of processImport and of processImportWithCallbackSync/Async.
Parameters ==
    IF WithCallback
    THEN <<"importPath", "callbackConfig", "settings">>
    ELSE <<"importPath", "settings">>

\* The arguments the loop passes in each branch.
Arguments(branch) ==
    IF ~WithCallback THEN <<"importPath", "settings">>
    ELSE IF branch = "ImportExpression" THEN <<"importPath", "settings">>
    ELSE <<"importPath", "callbackConfig", "settings">>

\* What the callee's last parameter, the destructured settings, is bound to.
SettingsArgument(branch) ==
    IF Len(Arguments(branch)) >= Len(Parameters)
    THEN Arguments(branch)[Len(Parameters)]
    ELSE "undefined"

Scanning ==
    /\ stack # <<>>
    /\ Top.pc = "scan"
    /\ Top.idx <= Len(disk[Top.filePath].body)

\* Mutant: the statements are taken from the last to the first.
CurrentNodeBackwards ==
    disk[Top.filePath].body[Len(disk[Top.filePath].body) + 1 - Top.idx]

\* for (const node of sourceCode.ast.body)
CurrentNode == disk[Top.filePath].body[Top.idx]

Scanned == Event("scan", Top.filePath, Top.depth, Top.idx, <<>>)

\* path.dirname(filePath): the directory that holds the file.
dirname(filePath) == [dirname |-> filePath]

\* makeProcessImportSettings(filePath, { cwd, visitedSet, depth, maxDepth })
makeProcessImportSettings(filePath, handles, depth) ==
    [currentDir |-> dirname(filePath), cwd |-> handles.cwd,
     visitedSet |-> visitedSetInUse(handles), depth |-> depth,
     maxDepth |-> handles.maxDepth]

\* The settings the innermost frame made before its loop.
ProcessImportSettings ==
    makeProcessImportSettings(Top.filePath, Top.handles, Top.depth)

\* resolveImportingPath(currentDir, importPath, cwd) as processImport calls it
\* for the statement at hand.
ResolverArguments ==
    <<ProcessImportSettings.currentDir, CurrentNode.specifier, ProcessImportSettings.cwd>>

\* processImport on a resolved path: the next round of the engine, one deeper.
ScanRecurse ==
    /\ Scanning
    /\ Branch(CurrentNode) # "none"
    /\ SettingsArgument(Branch(CurrentNode)) # "undefined"
    /\ resolveImportingPath(ResolverArguments[2]) # 0
    /\ stack' = Append(SetTop([Top EXCEPT !.pc = "call"]),
                       Frame(resolveImportingPath(ResolverArguments[2]),
                             makeFindAllImportsOptions(ProcessImportSettings.depth),
                             HandlesOfNextRound(Top.handles)))
    /\ log' = Append(log, Scanned)
    /\ UNCHANGED <<other, call, variant, input, maxDepth, deferred, disk, visitedSet, accumulator, result>>

\* Mutant: a failed branch is pruned and the loop goes on.
AfterChildPruned(parent, results) ==
    [parent EXCEPT !.pc = "scan", !.idx = @ + 1]

\* Mutant: the failure is wrapped with an error of the enclosing frame.
AfterChildWrapped(parent, results) ==
    IF ~results.success
    THEN [parent EXCEPT !.pc = "return",
                        !.rv = [results EXCEPT !.errors =
                                   Append(@, [type |-> "error",
                                              message |-> Message("Import failed", parent.filePath)])]]
    ELSE [parent EXCEPT !.pc = "scan", !.idx = @ + 1]

\* The frame that called processImport, once it has the results:
\* if (!processImportResults.success) return processImportResults;
AfterChild(parent, results) ==
    IF ~results.success
    THEN [parent EXCEPT !.pc = "return", !.rv = results]
    ELSE [parent EXCEPT !.pc = "scan", !.idx = @ + 1]

\* Mutant: an unresolved path is reported as a failure.
processImportUnresolvedFails ==
    makeSuccessFalseTypeError(Message("Unresolved import", 0))

\* if (!resolvedPath) return { ...successTrue, visitedSet [, accumulator] };
processImportUnresolved == Success(HandlesOfNextRound(Top.handles))

\* processImport on an unresolved path: its early return goes back to the loop.
ScanUnresolved ==
    /\ Scanning
    /\ Branch(CurrentNode) # "none"
    /\ SettingsArgument(Branch(CurrentNode)) # "undefined"
    /\ resolveImportingPath(ResolverArguments[2]) = 0
    /\ stack' = SetTop(AfterChild(Top, processImportUnresolved))
    /\ log' = Append(log, Scanned)
    /\ UNCHANGED <<other, call, variant, input, maxDepth, deferred, disk, visitedSet, accumulator, result>>

\* A statement none of the three tests accepts.
ScanOther ==
    /\ Scanning
    /\ Branch(CurrentNode) = "none"
    /\ stack' = SetTop([Top EXCEPT !.idx = @ + 1])
    /\ log' = Append(log, Scanned)
    /\ UNCHANGED <<other, call, variant, input, maxDepth, deferred, disk, visitedSet, accumulator, result>>

\* The callee destructures an undefined settings argument: a TypeError that no
\* frame catches (the only try block is around the callback).
ScanThrow ==
    /\ Scanning
    /\ Branch(CurrentNode) # "none"
    /\ SettingsArgument(Branch(CurrentNode)) = "undefined"
    /\ stack' = <<>>
    /\ result' = [state |-> "thrown", value |-> NoResult]
    /\ log' = Append(log, Scanned)
    /\ UNCHANGED <<other, call, variant, input, maxDepth, deferred, disk, visitedSet, accumulator>>

\* The loop is over: { ...successTrue, visitedSet [, accumulator] }.
LoopEnd ==
    /\ stack # <<>>
    /\ Top.pc = "scan"
    /\ Top.idx > Len(disk[Top.filePath].body)
    /\ stack' = Returning(Success(Top.handles))
    /\ UNCHANGED <<other, call, variant, input, maxDepth, deferred, disk, visitedSet, accumulator, result, log>>

\* The innermost frame returns to its caller.
Return ==
    /\ stack # <<>>
    /\ Top.pc = "return"
    /\ IF Len(stack) = 1
       THEN /\ stack' = <<>>
            /\ result' = [state |-> "returned", value |-> Top.rv]
       ELSE /\ stack' = Append(SubSeq(stack, 1, Len(stack) - 2),
                               AfterChild(stack[Len(stack) - 1], Top.rv))
            /\ UNCHANGED result
    /\ UNCHANGED <<other, call, variant, input, maxDepth, deferred, disk, visitedSet, accumulator, log>>

Roots == {1}

Next ==
    \/ \E filePath \in Roots : Call(filePath)
    \/ Enter
    \/ CallbackSync
    \/ DeferredSettle
    \/ CallbackStart
    \/ CallbackSettle
    \/ ScanRecurse
    \/ ScanUnresolved
    \/ ScanOther
    \/ ScanThrow
    \/ LoopEnd
    \/ Return

Spec == Init /\ [][Next]_vars

\* The engine runs to completion: a step that can be taken is taken, and an
\* awaited callback promise settles.
FairSpec == Spec /\ WF_vars(Next)

\* A step of the engine itself, not the settlement of a promise it dropped.
EngineStep == deferred' = deferred \/ stack' # stack

(* --------------- calls on a ledger the caller already holds ----------- *)

\* The caller holds a ledger with any of the paths in it; its arguments are
\* well typed, its callbackConfig may be anything.
LedgerInit ==
    /\ variant \in Variants
    /\ input \in {in \in Inputs(variant) :
                    [in EXCEPT !.callbackConfig = ValidInput.callbackConfig] = ValidInput}
    /\ maxDepth \in MaxDepths
    /\ disk = [f \in Files |-> Unread]
    /\ visitedSet \in SUBSET Files
    /\ accumulator = <<>>
    /\ stack = <<>>
    /\ result = [state |-> "idle", value |-> NoResult]
    /\ deferred = [f \in Files |-> "none"]
    /\ call = NoCall
    /\ other = NoOther
    /\ log = <<>>

LedgerNext ==
    \/ Next
    \/ \E filePath \in Roots : CallAgain(filePath)
    \/ \E filePath \in Roots : FileSystemChanges(filePath)

LedgerSpec == LedgerInit /\ [][LedgerNext]_vars

(* ------------- two async calls interleaved on the same ledger ---------- *)

\* The paths the second call may be made on.
OtherRoots == {1, 2}

\* The running call is at an await: of its callback's promise, or of the
\* promise processImportWithCallbackAsync returned for the statement before
\* the one at hand.
AtAwait ==
    /\ stack # <<>>
    /\ \/ Top.pc = "await"
       \/ /\ Top.pc = "scan"
          /\ Top.idx > 1
          /\ Branch(disk[Top.filePath].body[Top.idx - 1]) # "none"

\* The running call has yielded the thread: it is at an await, or its promise
\* has settled.
Yielded == AtAwait \/ (stack = <<>> /\ result.state \in {"returned", "thrown"})

\* The caller has two async calls under way on one ledger and one
\* callbackConfig, all arguments well typed, maxDepth left to its default or
\* set to the largest explicit value.
InterleavedInit ==
    /\ variant = "async"
    /\ input = ValidInput
    /\ maxDepth \in {MaxMaxDepth, DefaultMaxDepth}
    /\ disk = [f \in Files |-> Unread]
    /\ visitedSet = {}
    /\ accumulator = <<>>
    /\ stack = <<>>
    /\ result = [state |-> "idle", value |-> NoResult]
    /\ deferred = [f \in Files |-> "none"]
    /\ call = NoCall
    /\ other = NoOther
    /\ log = <<>>

\* While the first call is at an await, or over, the second call is made on
\* filePath with the same ledger; it runs from here.
CallOther(filePath) ==
    /\ other.root = 0
    /\ Yielded
    /\ other' = OtherCall(2, stack, result, filePath)
    /\ stack' = <<Frame(filePath, input.startDepth, TopLevelHandles)>>
    /\ result' = [state |-> "running", value |-> NoResult]
    /\ UNCHANGED <<call, variant, input, maxDepth, deferred, disk, visitedSet, accumulator, log>>

\* The running call has yielded and the other call, not over yet, goes on
\* from the await it was at.
Switch ==
    /\ other.root # 0
    /\ Yielded
    /\ other.result.state = "running"
    /\ stack' = other.stack
    /\ result' = other.result
    /\ other' = OtherCall(3 - other.running, stack, result, other.root)
    /\ UNCHANGED <<call, variant, input, maxDepth, deferred, disk, visitedSet, accumulator, log>>

InterleavedNext ==
    \/ \E filePath \in Roots : Call(filePath)
    \/ \E filePath \in OtherRoots : CallOther(filePath)
    \/ Switch
    \/ Enter
    \/ CallbackStart
    \/ CallbackSettle
    \/ ScanRecurse
    \/ ScanUnresolved
    \/ ScanOther
    \/ ScanThrow
    \/ LoopEnd
    \/ Return

InterleavedSpec == InterleavedInit /\ [][InterleavedNext]_vars

(* ------------------ calls with a depth option of the caller ----------- *)

\* The caller passes well-typed arguments and a depth of its own.
CursorInit ==
    /\ variant \in Variants
    /\ input \in {[ValidInput EXCEPT !.startDepth = d] : d \in 0..MaxStartDepth}
    /\ maxDepth \in MaxDepths
    /\ disk = [f \in Files |-> Unread]
    /\ visitedSet = {}
    /\ accumulator = <<>>
    /\ stack = <<>>
    /\ result = [state |-> "idle", value |-> NoResult]
    /\ deferred = [f \in Files |-> "none"]
    /\ call = NoCall
    /\ other = NoOther
    /\ log = <<>>

CursorSpec == CursorInit /\ [][Next]_vars

\* The same, run to completion: a step that can be taken is taken, and every
\* callback comes back.
FairCursorSpec == CursorSpec /\ WF_vars(Next)

(* ---------------- validateCallbackConfig called on its own ------------- *)

\* What validateCallbackConfig leaves of its argument: it reads the callback
\* and accumulator properties and builds its result from them.
ConfigAfterValidation(callbackConfig) == callbackConfig

\* Any value at all is passed as callbackConfig.
ConfigInit ==
    /\ variant = "sync"
    /\ input \in {[ValidInput EXCEPT !.callbackConfig = c] : c \in CallbackConfigs}
    /\ maxDepth = DefaultMaxDepth
    /\ disk = [f \in Files |-> Unread]
    /\ visitedSet = {}
    /\ accumulator = <<>>
    /\ stack = <<>>
    /\ result = [state |-> "idle", value |-> NoResult]
    /\ deferred = [f \in Files |-> "none"]
    /\ call = NoCall
    /\ other = NoOther
    /\ log = <<>>

\* validateCallbackConfig(callbackConfig) is called and returns.
ValidateConfig ==
    /\ result.state = "idle"
    /\ result' = [state |-> "returned", value |-> validateCallbackConfig(input.callbackConfig)]
    /\ input' = [input EXCEPT !.callbackConfig = ConfigAfterValidation(@)]
    /\ UNCHANGED <<other, call, variant, maxDepth, deferred, disk, visitedSet, accumulator, stack, log>>

ConfigNext == ValidateConfig

ConfigSpec == ConfigInit /\ [][ConfigNext]_vars

(* ------------------- the reference graph read so far ------------------ *)

Range(seq) == {seq[i] : i \in DOMAIN seq}

\* The files the top-level statements of file refer to: the resolved
\* specifiers of its import-like statements.
References(file) ==
    {resolveImportingPath(n.specifier) :
        n \in {m \in Range(disk[file].body) : Branch(m) # "none"}} \ {0}

RECURSIVE Closure(_)
Closure(S) ==
    LET T == S \cup UNION {References(f) : f \in S}
    IN IF T = S THEN S ELSE Closure(T)

\* The root of the top-level call.
Root == IF log = <<>> THEN 0 ELSE log[1].file

\* The files transitively reachable from the root, the root included.
Reachable == IF Root = 0 THEN {} ELSE Closure({Root})

\* Some reachable file refers back to itself through one or more references.
Cyclic == \E f \in Reachable : f \in Closure(References(f))

\* No reachable file read so far is missing or unparsable.
ReachableFilesParse ==
    \A f \in Reachable : disk[f].known => (disk[f].exists /\ disk[f].ast)

Returned == result.state = "returned"

Succeeded == Returned /\ result.value.success

Failed == Returned /\ ~result.value.success

\* The positions of the log holding event ev of file.
Occurrences(ev, file) == {i \in DOMAIN log : log[i].ev = ev /\ log[i].file = file}

(* ------------------------------- claims ------------------------------- *)

\* C1: on an acyclic graph whose reachable files all exist and parse, a
\* top-level call (any entry point, empty ledger, depth 0) that returns success
\* leaves in the ledger exactly the files reachable from the root, each of
\* them inserted once however many paths lead to it.
C1_LedgerIsReachableSet ==
    (Succeeded /\ ~Cyclic /\ ReachableFilesParse)
        => /\ visitedSet = Reachable
           /\ \A f \in Reachable : Cardinality(Occurrences("add", f)) = 1

\* C1 witness: a successful callback traversal of an acyclic graph of three
\* files in which one file is reached a second time (a diamond).
C1_Witness ==
    /\ Succeeded
    /\ variant = "sync"
    /\ ~Cyclic
    /\ Cardinality(visitedSet) = NumFiles
    /\ \E f \in Files : Occurrences("revisit", f) # {}

\* The top-level call is over: it returned a result or an exception escaped.
Done == result.state \in {"returned", "thrown"}

\* file lies on a cycle of the reference graph.
OnCycle(file) == file \in Closure(References(file))

\* C2 as stated, for findAllImports: on a cyclic graph whose files all exist
\* and parse, the call returns success with every file of the cycle inserted
\* once, whatever maxDepth is.
C2_AsStated ==
    (Done /\ variant = "plain" /\ Cyclic /\ ReachableFilesParse)
        => /\ Succeeded
           /\ \A f \in Reachable :
                OnCycle(f) => (f \in visitedSet /\ Cardinality(Occurrences("add", f)) = 1)

\* C2 amended: the call always terminates; on a cyclic graph whose files all
\* exist and parse, a call that returns success has inserted every file of the
\* cycle exactly once, and findAllImports does return success when maxDepth is
\* at least the number of reachable files.
C2_CycleTerminatesOnce ==
    /\ <>Done
    /\ [](  (Done /\ Cyclic /\ ReachableFilesParse)
            => /\ Succeeded =>
                    \A f \in Reachable :
                        OnCycle(f) =>
                            (f \in visitedSet /\ Cardinality(Occurrences("add", f)) = 1)
               /\ (variant = "plain" /\ maxDepth >= Cardinality(Reachable))
                    => Succeeded)

\* C2 witness: findAllImports has returned success on a cycle of two files,
\* with maxDepth just large enough, after meeting the back-edge to the root.
C2_Witness ==
    /\ Succeeded
    /\ variant = "plain"
    /\ Cardinality(Reachable) > 1
    /\ \A f \in Reachable : OnCycle(f)
    /\ maxDepth = Cardinality(Reachable)
    /\ Occurrences("revisit", Root) # {}

\* C3: no call lets an exception or a rejected promise escape; every call ends
\* with a structured Result.
C3_NoEscape == result.state # "thrown"

\* The engine is entered on a path that is already in the ledger.
EnterVisited == Enter /\ Top.filePath \in visitedSet

\* The callback was called at most once per file and no statement was scanned
\* twice.
ProcessedOnce ==
    /\ \A f \in Files : Cardinality(Occurrences("callback", f)) <= 1
    /\ \A i, j \in DOMAIN log :
         (log[i].ev = "scan" /\ log[j].ev = "scan"
            /\ log[i].file = log[j].file /\ log[i].idx = log[j].idx) => i = j

\* C4 as stated: an invocation on a path already in the ledger returns success
\* at once.
C4_AsStated ==
    [][EnterVisited => (Top'.pc = "return" /\ Top'.rv.success)]_vars

\* C4 amended: an invocation on a path already in the ledger returns at once,
\* leaving ledger and accumulator alone, scanning nothing and calling no
\* callback; it returns success unless its depth exceeds maxDepth, which
\* validation finds first; the callback is called at most once per file.
C4_VisitedReturnsAtOnce ==
    /\ [][EnterVisited =>
            /\ Top'.pc = "return"
            /\ Top'.rv = IF Top.depth > maxDepth
                         THEN makeSuccessFalseTypeError(
                                  Message("Max depth reached", Top.filePath))
                         ELSE Success(Top.handles)
            /\ visitedSet' = visitedSet
            /\ accumulator' = accumulator
            /\ \A i \in DOMAIN log' : i > Len(log) => log'[i].ev \notin {"scan", "callback", "add"}
         ]_vars
    /\ []ProcessedOnce

\* C4 witness: an async frame has just short-circuited with success on a file
\* whose callback ran earlier.
C4_Witness ==
    /\ variant = "async"
    /\ stack # <<>>
    /\ Top.pc = "return"
    /\ Top.rv.success
    /\ log[Len(log)].ev = "revisit"
    /\ Occurrences("callback", Top.filePath) # {}

\* The callback invocations so far, in order.
Callbacks == SelectSeq(log, LAMBDA e : e.ev = "callback")

\* The depth-first pre-order of the reference graph: <<file, depth>> pairs,
\* each file's import-like statements taken in source order, files already
\* listed skipped.
RECURSIVE VisitFile(_, _, _), VisitBody(_, _, _, _)
VisitFile(file, depth, order) ==
    IF \E k \in DOMAIN order : order[k][1] = file
    THEN order
    ELSE VisitBody(file, depth, 1, Append(order, <<file, depth>>))

VisitBody(file, depth, i, order) ==
    IF i > Len(disk[file].body)
    THEN order
    ELSE LET n == disk[file].body[i]
             target == resolveImportingPath(n.specifier)
         IN VisitBody(file, depth, i + 1,
                      IF Branch(n) # "none" /\ target # 0
                      THEN VisitFile(target, depth + 1, order)
                      ELSE order)

PreOrder == IF Root = 0 THEN <<>> ELSE VisitFile(Root, 0, <<>>)

IsPrefix(a, b) == Len(a) <= Len(b) /\ \A k \in DOMAIN a : a[k] = b[k]

\* C5: in the callback variants the callbacks are invoked in the depth-first
\* pre-order of the reference graph (statements in source order, visited files
\* skipped): at every moment the invocations made are a prefix of that order,
\* and on success they are the whole of it.
C5_CallbackOrderIsPreOrder ==
    WithCallback =>
        LET order == [k \in DOMAIN Callbacks |-> <<Callbacks[k].file, Callbacks[k].depth>>]
        IN /\ IsPrefix(order, PreOrder)
           /\ Succeeded => order = PreOrder

\* C5 witness: a -> b, c and b -> c traversed with success: the callbacks ran
\* for a, b, c in that order and c was reached through b, at depth 2.
C5_Witness ==
    /\ Succeeded
    /\ WithCallback
    /\ Len(disk[1].body) = 2
    /\ resolveImportingPath(disk[1].body[1].specifier) = 2
    /\ resolveImportingPath(disk[1].body[2].specifier) = 3
    /\ References(2) = {3}
    /\ [k \in DOMAIN Callbacks |-> <<Callbacks[k].file, Callbacks[k].depth>>]
         = <<<<1, 0>>, <<2, 1>>, <<3, 2>>>>

\* C6: when the callback of the K-th discovered file starts, the accumulator
\* holds exactly what the callbacks of files 1..K-1 have done, in discovery
\* order (each callback appends its file when it completes).
C6_AccumulatorSeenInOrder ==
    /\ \A k \in DOMAIN Callbacks :
         Callbacks[k].acc = [j \in 1..(k - 1) |-> Callbacks[j].file]
    /\ \A p, q \in DOMAIN log :
         (p < q /\ log[p].ev = "callback" /\ log[q].ev = "callback")
            => \E m \in DOMAIN log :
                 p < m /\ m < q /\ log[m].ev = "settled" /\ log[m].file = log[p].file

\* C6 witness: the third callback of an async traversal has started and saw
\* the work of the first two.
C6_Witness ==
    /\ variant = "async"
    /\ Len(Callbacks) = 3
    /\ Callbacks[3].acc = <<Callbacks[1].file, Callbacks[2].file>>
    /\ Callbacks[1].file # Callbacks[2].file

\* C7: once the callback has failed for file F nothing else happens in the
\* traversal: no callback, no ledger insertion, no scan; F is in the ledger;
\* and the top-level call returns the callback failure of F.
C7_CallbackFailureAborts ==
    \A i \in DOMAIN log :
        log[i].ev = "cbfail" =>
            /\ i = Len(log)
            /\ log[i].file \in visitedSet
            /\ Done => (Returned /\ result.value = CallbackFailure(log[i].file))

\* C7 witness: the call has returned the failure of a callback that failed
\* below the root, while the root still had a later statement to scan.
C7_Witness ==
    /\ Returned
    /\ \E i \in DOMAIN log :
         /\ log[i].ev = "cbfail"
         /\ log[i].depth >= 1
         /\ result.value = CallbackFailure(log[i].file)
    /\ Len(disk[Root].body) = 2
    /\ Cardinality({i \in DOMAIN log : log[i].ev = "scan" /\ log[i].file = Root}) = 1

MaxDepthFailure(filePath) ==
    makeSuccessFalseTypeError(Message("Max depth reached", filePath))

\* The reference graph is a linear chain: every reachable file read so far
\* holds nothing but one resolved import-like statement, or nothing at all.
LinearChain ==
    /\ ~Cyclic
    /\ \A f \in Reachable :
         /\ Len(disk[f].body) <= 1
         /\ Cardinality(References(f)) = Len(disk[f].body)

\* The file of the chain at the given depth.
RECURSIVE ChainFile(_, _)
ChainFile(file, depth) ==
    IF depth = 0 THEN file
    ELSE ChainFile(CHOOSE g \in References(file) : TRUE, depth - 1)

\* No callback has thrown or rejected.
NoCallbackFailed == \A i \in DOMAIN log : log[i].ev # "cbfail"

\* C8: with maxDepth = N, a call on a linear chain of N+1 existing files
\* succeeds with all of them in the ledger, and on a chain of N+2 files it
\* fails with the max-depth failure raised for the file at depth N+1.
C8_ChainDepth ==
    (Done /\ input = ValidInput /\ LinearChain /\ ReachableFilesParse /\ NoCallbackFailed)
        => /\ Cardinality(Reachable) = maxDepth + 1
                => (Succeeded /\ visitedSet = Reachable)
           /\ Cardinality(Reachable) = maxDepth + 2
                => (Failed /\ result.value = MaxDepthFailure(ChainFile(Root, maxDepth + 1)))

\* A max-depth failure has been raised.
DepthExceeded == \E i \in DOMAIN log : log[i].ev = "fail" /\ log[i].depth > maxDepth

\* C9: once a max-depth failure is raised, every step until the call is over
\* takes the failure one frame up: the innermost frame returns it, nothing is
\* scanned, entered or inserted any more, and the top-level caller gets it.
C9_DepthFailureIsTerminal ==
    [][(DepthExceeded /\ EngineStep) =>
        /\ Len(stack') = Len(stack) - 1
        /\ log' = log
        /\ visitedSet' = visitedSet
        /\ accumulator' = accumulator
        /\ IF stack' = <<>>
           THEN result' = [state |-> "returned", value |-> Top.rv]
           ELSE Top'.pc = "return" /\ Top'.rv = Top.rv
        /\ Top.rv = MaxDepthFailure(log[Len(log)].file)
      ]_vars

\* C9 witness: the call has returned a max-depth failure raised two levels
\* below the root, and the root had a second statement that was never scanned.
C9_Witness ==
    /\ Failed
    /\ DepthExceeded
    /\ log[Len(log)].depth = 2
    /\ result.value = MaxDepthFailure(log[Len(log)].file)
    /\ Len(disk[Root].body) = 2
    /\ Cardinality({i \in DOMAIN log : log[i].ev = "scan" /\ log[i].file = Root}) = 1

\* The failure an event of the log stands for.
FailureOf(e) ==
    IF e.ev = "cbfail" THEN CallbackFailure(e.file)
    ELSE IF e.ev = "cfgfail" THEN validateCallbackConfig(input.callbackConfig)
    ELSE validateFilePathAndOptions(e.file, input, e.depth, maxDepth, disk[e.file])

FailureEvents == {"fail", "cfgfail", "cbfail"}

\* C10: the first failure of any frame is the last event of the traversal (no
\* later statement of any enclosing file is scanned), every frame that returns
\* afterwards returns that very failure, and so does the top-level call.
C10_FailFastUnchanged ==
    \A i \in DOMAIN log :
        log[i].ev \in FailureEvents =>
            /\ i = Len(log)
            /\ \A k \in DOMAIN stack :
                 stack[k].pc = "return" => stack[k].rv = FailureOf(log[i])
            /\ Done => (Returned /\ result.value = FailureOf(log[i]))

\* C10 witness: x refers to a nonexistent y and then to something else; the
\* call on x has returned y's file-not-found failure and never scanned the
\* second statement.
C10_Witness ==
    /\ Returned
    /\ Len(disk[Root].body) = 2
    /\ LET y == resolveImportingPath(disk[Root].body[1].specifier)
       IN /\ y \in Files
          /\ disk[y] = MissingFile
          /\ result.value = makeSuccessFalseTypeError(Message("File not found", y))
    /\ Cardinality({i \in DOMAIN log : log[i].ev = "scan"}) = 1

\* The resolver is called on the current statement and answers nothing.
ResolverReturnsFalsy ==
    /\ Scanning
    /\ Branch(CurrentNode) # "none"
    /\ SettingsArgument(Branch(CurrentNode)) # "undefined"
    /\ resolveImportingPath(CurrentNode.specifier) = 0

\* C11: when the resolver returns a falsy path for a statement's specifier the
\* statement is skipped, in all three entry points: the ledger and the
\* accumulator are left alone, no frame is entered, no callback is called, no
\* failure is produced, and the same frame goes on with its next statement.
C11_UnresolvedIsSkipped ==
    [][(ResolverReturnsFalsy /\ EngineStep) =>
        /\ visitedSet' = visitedSet
        /\ accumulator' = accumulator
        /\ result' = result
        /\ log' = Append(log, Scanned)
        /\ stack' = SetTop([Top EXCEPT !.idx = @ + 1])
      ]_vars

\* C11 witness: in the async variant the root's first statement was an
\* unresolved require call and its second statement has then been scanned;
\* the ledger holds the root alone and no failure was produced.
C11_Witness ==
    /\ variant = "async"
    /\ Len(log) >= 2
    /\ Len(disk[1].body) = 2
    /\ nodeIsRequireCall(disk[1].body[1])
    /\ resolveImportingPath(disk[1].body[1].specifier) = 0
    /\ \E i \in DOMAIN log : log[i].ev = "scan" /\ log[i].file = 1 /\ log[i].idx = 2
    /\ \A i \in DOMAIN log : log[i].ev \notin FailureEvents
    /\ Succeeded
    /\ visitedSet = {1}

\* What findAllImports does on the files read so far, as a function of the
\* path, the depth and the ledger: its results and the ledger it leaves.
RECURSIVE PlainRound(_, _, _), PlainLoop(_, _, _, _)
PlainRound(filePath, depth, set) ==
    LET v == validateFilePathAndOptions(filePath, input, depth, maxDepth, disk[filePath])
    IN IF ~v.success
       THEN [results |-> v, visitedSet |-> set]
       ELSE IF visitedSetHasPreviousVisit(set, filePath)
       THEN [results |-> successTrue(FALSE), visitedSet |-> set]
       ELSE PlainLoop(filePath, depth, 1, updateVisitedSet(set, filePath))

PlainLoop(filePath, depth, i, set) ==
    IF i > Len(disk[filePath].body)
    THEN [results |-> successTrue(FALSE), visitedSet |-> set]
    ELSE LET n == disk[filePath].body[i]
             target == resolveImportingPath(n.specifier)
         IN IF Branch(n) = "none" \/ target = 0
            THEN PlainLoop(filePath, depth, i + 1, set)
            ELSE LET r == PlainRound(target, makeFindAllImportsOptions(depth), set)
                 IN IF ~r.results.success
                    THEN r
                    ELSE PlainLoop(filePath, depth, i + 1, r.visitedSet)

\* The outcome of findAllImports on the root, from an empty ledger.
PlainOutcome == PlainRound(Root, 0, {})

\* C12: on the same reference graph and options, with a valid callbackConfig
\* whose callback never fails, each entry point ends with the outcome of
\* findAllImports: the same success tag, the same errors and the same ledger
\* (the results differing by the accumulator field alone), whichever of the
\* three import-like statement kinds the graph uses.
C12_SameOutcomeInAllVariants ==
    (Done /\ validateCallbackConfig(input.callbackConfig).success /\ NoCallbackFailed)
        => /\ Returned
           /\ result.value.success = PlainOutcome.results.success
           /\ result.value.errors = PlainOutcome.results.errors
           /\ visitedSet = PlainOutcome.visitedSet

\* The current statement of a callback variant is import-like and its
\* specifier names a path the resolver finds.
ResolvedImportWithCallback ==
    /\ Scanning
    /\ WithCallback
    /\ Branch(CurrentNode) # "none"
    /\ resolveImportingPath(CurrentNode.specifier) # 0

\* C13: in each callback variant, for a statement of each import-like kind
\* (declarative import, dynamic import, require call) whose specifier
\* resolves, the engine recurses: a new frame on the resolved path, one level
\* deeper, on the same ledger and accumulator, which the step leaves alone.
C13_RecursesForEveryKind ==
    [][(ResolvedImportWithCallback /\ EngineStep) =>
        /\ stack' = Append(SetTop([Top EXCEPT !.pc = "call"]),
                           Frame(resolveImportingPath(CurrentNode.specifier), Top.depth + 1,
                                 Top.handles))
        /\ visitedSet' = visitedSet
        /\ accumulator' = accumulator
        /\ result' = result
      ]_vars

\* An engine invocation fails its own validation: that of filePath and
\* options, or that of callbackConfig.
EnterFailsValidation ==
    /\ Enter
    /\ log'[Len(log')].ev \in {"fail", "cfgfail"}

\* C14: an engine invocation that fails its own validation (argument types,
\* ill-formed ledger, depth > maxDepth, file not found, parse failure, invalid
\* callbackConfig) returns the failure leaving the ledger and the accumulator
\* as they were on entry, and calls no callback.
C14_ValidationBeforeMutation ==
    [][EnterFailsValidation =>
        /\ visitedSet' = visitedSet
        /\ accumulator' = accumulator
        /\ Len(log') = Len(log) + 2
        /\ log'[Len(log) + 1].ev = "enter"
        /\ Top'.pc = "return"
        /\ ~Top'.rv.success
        /\ (Top.rv = FailureOf(log[Len(log)]))'
      ]_vars

\* C14 witness: below the root, after the callback of the root has changed
\* the accumulator, an invocation has just failed on a file that does not
\* parse; the ledger holds the root alone.
C14_Witness ==
    /\ WithCallback
    /\ stack # <<>>
    /\ Top.pc = "return"
    /\ Top.depth = 1
    /\ Top.rv = makeSuccessFalseTypeError(Message("Failed to parse AST", Top.filePath))
    /\ log[Len(log)].ev = "fail"
    /\ visitedSet = {Root}
    /\ accumulator = <<Root>>
    /\ Top.filePath # Root

\* The position of the first event ev of file in the log, 0 when there is none.
FirstOccurrence(ev, file) ==
    IF Occurrences(ev, file) = {} THEN 0
    ELSE CHOOSE i \in Occurrences(ev, file) : \A j \in Occurrences(ev, file) : i <= j

\* The frames whose file is being processed: past the ledger insertion.
Processing(frame) == frame.pc \in {"callback", "await", "scan", "call"}

\* C15: for every file F processed the order is: F is inserted into the
\* ledger, then (callback variants) the callback of F is called and, before
\* any statement of F is scanned, has returned or settled; only then are F's
\* statements scanned and recursed into.  So F is in the ledger whenever its
\* callback runs and whenever a descendant of F is entered, inserted or called
\* back.
C15_InsertCallbackScanOrder ==
    /\ \A i \in DOMAIN log :
         /\ log[i].ev = "callback" =>
                (i > 1 /\ log[i - 1].ev = "add" /\ log[i - 1].file = log[i].file)
         /\ (log[i].ev = "add" /\ WithCallback /\ i < Len(log)) =>
                (log[i + 1].ev = "callback" /\ log[i + 1].file = log[i].file)
         /\ log[i].ev = "scan" =>
                /\ FirstOccurrence("add", log[i].file) \in 1..(i - 1)
                /\ WithCallback =>
                     \E m \in Occurrences("settled", log[i].file) :
                         FirstOccurrence("callback", log[i].file) < m /\ m < i
    /\ \A k \in DOMAIN stack :
         /\ Processing(stack[k]) => stack[k].filePath \in visitedSet
         /\ k < Len(stack) => (stack[k].pc = "call" /\ stack[k].filePath \in visitedSet)

\* C15 witness: in the async variant the callback of a file two levels below
\* the root is pending, with the root and the file in between both in the
\* ledger and both waiting for their statement to be processed.
C15_Witness ==
    /\ variant = "async"
    /\ Len(stack) = 3
    /\ Top.pc = "await"
    /\ stack[1].pc = "call"
    /\ stack[2].pc = "call"
    /\ visitedSet = {stack[1].filePath, stack[2].filePath, stack[3].filePath}
    /\ Cardinality(visitedSet) = 3

\* The callback invocations that have started and not settled: positions of
\* the log holding a callback event with no later settlement of that file.
Pending ==
    {i \in DOMAIN log :
        /\ log[i].ev = "callback"
        /\ ~\E m \in DOMAIN log :
              m > i /\ log[m].ev \in {"settled", "cbfail"} /\ log[m].file = log[i].file}

\* C16: within one top-level call of the async variant the traversal is
\* sequential: at most one callback is pending at any moment; while one is
\* pending the only thing that happens is its settlement (no ledger insertion,
\* no entry, no scan, no other callback); so no callback starts before the
\* callbacks of all the files discovered earlier have settled.
C16_AsyncIsSequential ==
    /\ [](variant = "async" => Cardinality(Pending) <= 1)
    /\ [][(variant = "async" /\ Pending # {}) =>
            /\ visitedSet' = visitedSet
            /\ accumulator' \in {accumulator, CallbackMutation(accumulator, Top.filePath)}
            /\ Len(stack') = Len(stack)
            /\ Len(log') = Len(log) + 1
            /\ log'[Len(log')].ev \in {"settled", "cbfail"}
            /\ log'[Len(log')].file = log[Len(log)].file
            /\ Pending' = {}
         ]_vars

\* C16 witness: the callback of the root's second import is pending, after
\* the callback of its first import has settled; that one callback alone is
\* pending.
C16_Witness ==
    /\ variant = "async"
    /\ Len(Callbacks) = 3
    /\ Callbacks[2].depth = 1
    /\ Callbacks[3].depth = 1
    /\ Cardinality(Pending) = 1
    /\ Top.pc = "await"
    /\ Occurrences("settled", Callbacks[2].file) # {}

\* The promise returned by the sync callback of filePath is rejected in this
\* step.
DeferredRejects(filePath) ==
    deferred[filePath] = "pending" /\ deferred'[filePath] = "rejected"

\* C17: in the sync variant a callback that returns a pending promise is not
\* waited for: the frame goes on to scan its statements in the very step in
\* which the callback returns; the later rejection of that promise changes
\* nothing of the traversal or of its Result; and a Failure the call returns
\* is always a failure the engine itself raised.
C17_DeferredCompletionIgnored ==
    /\ [][(CallbackSync /\ deferred' # deferred) =>
            (Top'.pc = "scan" /\ deferred'[Top.filePath] = "pending")]_vars
    /\ [][(\E f \in Files : DeferredRejects(f)) =>
            /\ result' = result
            /\ stack' = stack
            /\ log' = log
            /\ visitedSet' = visitedSet
            /\ accumulator' = accumulator]_vars
    /\ [](Failed =>
            /\ log # <<>>
            /\ log[Len(log)].ev \in FailureEvents
            /\ result.value = FailureOf(log[Len(log)]))

\* C17 witness: a sync call has returned success on the root and a file it
\* imports, although the promise returned by the root's callback, pending
\* when the import was entered, has been rejected.
C17_Witness ==
    /\ variant = "sync"
    /\ Succeeded
    /\ deferred[Root] = "rejected"
    /\ Cardinality(visitedSet) >= 2
    /\ Len(Callbacks) >= 2

\* value is a success that refers to the top-level call's own ledger and, in
\* the callback variants, to the accumulator of the caller's callbackConfig.
RefersToCallersObjects(value) ==
    /\ value.visitedSet = TopLevelHandles.visitedSet
    /\ value.accumulatorOf = TopLevelHandles.callbackConfig

\* C18: the ledger and the accumulator are shared by reference and never
\* copied: every frame, at every depth, holds the ledger of the top-level call
\* and the caller's callbackConfig; every success a frame returns, and the
\* Success of the call, refers to that ledger and to that accumulator; and the
\* ledger and accumulator the caller then holds carry what every depth did:
\* each inserted path and each callback's mutation, in order.
C18_SharedByReference ==
    /\ \A k \in DOMAIN stack :
         /\ stack[k].handles = TopLevelHandles
         /\ (stack[k].pc = "return" /\ stack[k].rv.success)
                => RefersToCallersObjects(stack[k].rv)
    /\ Succeeded =>
         /\ RefersToCallersObjects(result.value)
         /\ visitedSet = {log[i].file : i \in {j \in DOMAIN log : log[j].ev = "add"}}
         /\ WithCallback =>
                accumulator = [k \in DOMAIN Callbacks |-> Callbacks[k].file]

\* C18 witness: a sync call has returned success after inserting files and
\* running callbacks at depths 0, 1 and 2; the Success refers to the caller's
\* ledger and accumulator, which hold all three files.
C18_Witness ==
    /\ variant = "sync"
    /\ Succeeded
    /\ RefersToCallersObjects(result.value)
    /\ Cardinality(visitedSet) = 3
    /\ Len(accumulator) = 3
    /\ \E i \in DOMAIN log : log[i].ev = "callback" /\ log[i].depth = 2

\* The kinds of the specification's error taxonomy.
Kinds ==
    {"InvalidInput", "DepthExceeded", "FileNotFound", "ParseFailure",
     "ValidationSchemaFailure", "CallbackFailure"}

\* The kind of trigger each message of the code stands for.
KindOfMessage(text) ==
    CASE text \in {"filePath is supposed to be a string.",
                   "cwd is supposed to be a string.",
                   "visitedSet is supposed to be a Set.",
                   "depth is supposed to be a number.",
                   "maxDepth is supposed to be a number.",
                   "Invalid callbackConfig format.",
                   "Invalid callbackConfig.callback format."} -> "InvalidInput"
      [] text = "Max depth reached" -> "DepthExceeded"
      [] text = "File not found" -> "FileNotFound"
      [] text = "Failed to parse AST" -> "ParseFailure"
      [] text \in {"Config data could not pass validation from zod.",
                   "All values within visitedSet should be strings."}
            -> "ValidationSchemaFailure"
      [] text = "Callback error" -> "CallbackFailure"
      [] OTHER -> "none"

\* The kind of the trigger that made the engine fail at event e of the log,
\* told from the state and not from the message.
KindOfTrigger(e) ==
    IF e.ev = "cbfail" THEN "CallbackFailure"
    ELSE IF e.ev = "cfgfail" THEN "InvalidInput"
    ELSE IF \/ input.filePath # "string" \/ input.cwd # "string"
            \/ input.visitedSet # "Set" \/ input.depth # "number"
            \/ input.maxDepth # "number"
    THEN "InvalidInput"
    ELSE IF input.elements # "string" THEN "ValidationSchemaFailure"
    ELSE IF e.depth > maxDepth THEN "DepthExceeded"
    ELSE IF ~disk[e.file].exists THEN "FileNotFound"
    ELSE "ParseFailure"

\* C19 as stated: every Failure returned has a non-empty error list, each
\* error carrying a message and a kind tag of the closed taxonomy.
C19_AsStated ==
    Failed =>
        /\ result.value.errors # <<>>
        /\ \A k \in DOMAIN result.value.errors :
             /\ "message" \in DOMAIN result.value.errors[k]
             /\ "kind" \in DOMAIN result.value.errors[k]
             /\ result.value.errors[k].kind \in Kinds

\* C19 amended: every Failure returned has a non-empty error list; each error
\* carries a message and the one type tag "error", and no kind; the trigger is
\* told by the message alone: the kind each message stands for is the kind of
\* the trigger that made the engine fail.
C19_ErrorsCarryMessageAndType ==
    Failed =>
        /\ result.value.errors # <<>>
        /\ \A k \in DOMAIN result.value.errors :
             /\ DOMAIN result.value.errors[k] = {"type", "message"}
             /\ result.value.errors[k].type = "error"
             /\ KindOfMessage(result.value.errors[k].message.text) \in Kinds
             /\ KindOfMessage(result.value.errors[k].message.text)
                    = KindOfTrigger(log[Len(log)])

\* C19 witness: a Failure with more than one error: the ledger holds a value
\* that is no string, and the call returned the two errors of the schema
\* validation.
C19_Witness ==
    /\ Failed
    /\ Len(result.value.errors) = 2
    /\ input.elements # "string"
    /\ KindOfTrigger(log[Len(log)]) = "ValidationSchemaFailure"

\* The two invalid-input failures of validateCallbackConfig.
InvalidConfigFailures ==
    {makeSuccessFalseTypeError(Message("Invalid callbackConfig format.", 0)),
     makeSuccessFalseTypeError(Message("Invalid callbackConfig.callback format.", 0))}

\* C20: validateCallbackConfig returns an invalid-input failure exactly when
\* its argument is falsy, is no object, is an array, or has a callback
\* property that is no function; otherwise it returns success whatever the
\* accumulator property is, absent included; and it leaves its argument as it
\* was.
C20_ValidateCallbackConfig ==
    /\ [](Returned =>
            LET c == input.callbackConfig
                invalid == \/ c.kind \in {"undefined", "null", "false", "zero", "emptyString"}
                           \/ c.kind \in {"number", "string", "function"}
                           \/ c.kind = "array"
                           \/ c.callback # "function"
            IN IF invalid
               THEN result.value \in InvalidConfigFailures
               ELSE result.value.success)
    /\ [][input' = input]_vars

\* C20 witness: an object with a function as callback and no accumulator
\* property has been validated with success.
C20_Witness ==
    /\ Returned
    /\ result.value.success
    /\ input.callbackConfig = CallbackConfig("object", "function", "undefined")

\* C21: the ledger only grows: over any sequence of engine invocations,
\* failing ones and successive top-level calls on the same ledger included, no
\* step removes an element, and a step that changes the ledger is the entry
\* of one invocation adding one element, its own filePath.
C21_LedgerGrowsMonotonically ==
    [][/\ visitedSet \subseteq visitedSet'
       /\ visitedSet' # visitedSet =>
            /\ Enter
            /\ visitedSet' = visitedSet \cup {Top.filePath}
            /\ Top.filePath \notin visitedSet
      ]_vars

\* C21 witness: a second top-level call is under way on the ledger a first
\* call was given with one path in it, extended by two paths and left behind
\* with a failure.
C21_Witness ==
    /\ call.number = 2
    /\ result.state = "running"
    /\ Cardinality(call.visitedSet) = 3
    /\ \E i \in 1..call.from : log[i].ev \in FailureEvents
    /\ Cardinality({i \in DOMAIN log : log[i].ev = "add"}) = 2
    /\ visitedSet = call.visitedSet

\* The callback of the innermost frame's file is called in this step.
CallbackIsCalled == CallbackSync \/ CallbackStart

\* C22: every file the engine inserts into the ledger, and every file whose
\* callback is called, is reached at a depth <= maxDepth and exists and parses
\* at that moment; the engine never inserts a nonexistent, unparsable or
\* too-deep file.
C22_InsertedFilesPassedValidation ==
    /\ [][(Enter /\ visitedSet' # visitedSet) =>
            /\ Top.depth <= maxDepth
            /\ disk'[Top.filePath].exists
            /\ disk'[Top.filePath].ast]_vars
    /\ [][CallbackIsCalled =>
            /\ Top.depth <= maxDepth
            /\ disk[Top.filePath].exists
            /\ disk[Top.filePath].ast
            /\ Top.filePath \in visitedSet]_vars
    /\ [](\A i \in DOMAIN log :
            log[i].ev \in {"add", "callback"} => log[i].depth <= maxDepth)

\* C22 witness: with maxDepth 1 the root and a file it imports were inserted
\* and called back, and the call failed on a third file, met one level too
\* deep and never inserted.
C22_Witness ==
    /\ Failed
    /\ WithCallback
    /\ maxDepth = 1
    /\ call.visitedSet = {}
    /\ Cardinality(visitedSet) = 2
    /\ Len(Callbacks) = 2
    /\ log[Len(log)].ev = "fail"
    /\ log[Len(log)].depth = 2
    /\ log[Len(log)].file \notin visitedSet

\* The events logged since the current top-level call was made.
EventsOfCall == {i \in DOMAIN log : i > call.from}

\* The current call is a second call, made after the first one returned a
\* success, with the files as they were.
SecondCallAfterSuccess ==
    call.number = 2 /\ call.previous.success /\ ~call.changed

\* C23: a second top-level call on the same root with the same ledger, after a
\* successful one, returns success, leaves the ledger as it was and calls no
\* callback; and in any call a file that is in the ledger the caller supplied
\* is neither scanned nor passed to the callback.
C23_CrossCallMemoization ==
    /\ SecondCallAfterSuccess =>
          /\ visitedSet = call.visitedSet
          /\ \A i \in EventsOfCall : log[i].ev \notin {"add", "callback", "scan"}
          /\ Returned => result.value.success
          /\ result.state # "thrown"
    /\ \A i \in EventsOfCall :
          log[i].ev \in {"callback", "scan"} => log[i].file \notin call.visitedSet

\* C23 witness: the first call inserted two files and called the callback on
\* them; the second call returned a success after its entry and visited check
\* alone.
C23_Witness ==
    /\ SecondCallAfterSuccess
    /\ Succeeded
    /\ WithCallback
    /\ Cardinality(call.visitedSet) = 3
    /\ Cardinality({i \in 1..call.from : log[i].ev = "callback"}) = 2
    /\ Len(log) = call.from + 2
    /\ log[Len(log)].ev = "revisit"

\* The checks of the validation in the order the claim gives them, for the
\* frame about to enter and what the file system and the parser told it:
\* whether the check fails, and the message of its failure.
ChecksInOrder ==
    <<[fails |-> input.filePath # "string", text |-> "filePath is supposed to be a string."],
      [fails |-> input.cwd # "string", text |-> "cwd is supposed to be a string."],
      [fails |-> input.visitedSet # "Set", text |-> "visitedSet is supposed to be a Set."],
      [fails |-> input.depth # "number", text |-> "depth is supposed to be a number."],
      [fails |-> input.maxDepth # "number", text |-> "maxDepth is supposed to be a number."],
      [fails |-> input.elements # "string", text |-> "Config data could not pass validation from zod."],
      [fails |-> Top.depth > maxDepth, text |-> "Max depth reached"],
      [fails |-> ~disk'[Top.filePath].exists, text |-> "File not found"],
      [fails |-> ~disk'[Top.filePath].ast, text |-> "Failed to parse AST"]>>

\* The first check of the nine that fails, 10 when none does.
FirstFailingCheck ==
    IF \E k \in 1..9 : ChecksInOrder[k].fails
    THEN CHOOSE k \in 1..9 :
           ChecksInOrder[k].fails /\ \A j \in 1..(k - 1) : ~ChecksInOrder[j].fails
    ELSE 10

\* C24: the validation applies its nine checks in a fixed order and the first
\* one that fails determines the failure returned; a file met at a depth
\* beyond maxDepth gets the depth-exceeded failure without being looked for,
\* and the parser is not asked about a file that fails an earlier check.
C24_FirstFailingCheckDecides ==
    [][Enter =>
         /\ FirstFailingCheck <= 9 =>
               /\ Top'.pc = "return"
               /\ ~Top'.rv.success
               /\ Top'.rv.errors[1].message.text = ChecksInOrder[FirstFailingCheck].text
               /\ log'[Len(log')].ev = "fail"
         /\ FirstFailingCheck <= 7 => disk' = disk
         /\ FirstFailingCheck = 7 =>
               /\ Top'.rv = MaxDepthFailure(Top.filePath)
               /\ \A j \in 1..6 : ~ChecksInOrder[j].fails
         /\ FirstFailingCheck = 8 => disk'[Top.filePath] = MissingFile
         /\ FirstFailingCheck = 10 => log'[Len(log')].ev # "fail"
      ]_vars

\* C24 witness: the call failed with the depth-exceeded failure of a file
\* that was never looked for on the disk.
C24_Witness ==
    /\ Failed
    /\ log[Len(log)].ev = "fail"
    /\ log[Len(log)].depth = maxDepth + 1
    /\ result.value = MaxDepthFailure(log[Len(log)].file)
    /\ ~disk[log[Len(log)].file].known

\* C25: in every engine invocation of a top-level call made at depth d0, the
\* depth is d0 plus the number of enclosing engine frames and cwd and maxDepth
\* are those of the top-level call; the resolver is called with the directory
\* of the file being scanned and that same cwd.
C25_TraversalCursor ==
    /\ [](\A k \in DOMAIN stack :
            /\ stack[k].depth = input.startDepth + (k - 1)
            /\ stack[k].handles.cwd = TopLevelHandles.cwd
            /\ stack[k].handles.maxDepth = maxDepth)
    /\ [][(ScanRecurse \/ ScanUnresolved) =>
            ResolverArguments =
                <<dirname(Top.filePath), CurrentNode.specifier, TopLevelHandles.cwd>>]_vars
    /\ [](\A i \in DOMAIN log : log[i].depth >= input.startDepth)

\* C25 witness: a call made at depth 1 has three frames, the innermost at
\* depth 3, entered from a statement the resolver resolved.
C25_Witness ==
    /\ input.startDepth = 1
    /\ Len(stack) = 3
    /\ Top.depth = 3
    /\ stack[2].pc = "call"
    /\ log[Len(log)].ev = "scan"

\* The three tests of the loop that the statement passes.
TestsPassed(node) ==
    {t \in {"ImportDeclaration", "ImportExpression", "RequireCall"} :
        \/ t = "ImportDeclaration" /\ nodeIsImportDeclaration(node)
        \/ t = "ImportExpression" /\ nodeIsImportExpression(node)
        \/ t = "RequireCall" /\ nodeIsRequireCall(node)}

\* The innermost frame handles one statement in this step.
ScansStatement ==
    /\ stack # <<>>
    /\ Top.pc = "scan"
    /\ Len(log') = Len(log) + 1
    /\ log'[Len(log')].ev = "scan"

\* C26: the frame handles the top-level statements of its file one by one in
\* source order; each statement passes at most one of the three import tests;
\* a statement that passes none (an import nested in it included) makes no
\* resolver call, no recursion and no failure, the loop just moves on; and a
\* recursion goes to the path of the top-level statement at hand.
C26_TopLevelStatementsInOrder ==
    /\ [][ScansStatement =>
            LET node == disk[Top.filePath].body[Top.idx]
            IN /\ Top.idx \in 1..Len(disk[Top.filePath].body)
               /\ log'[Len(log')].idx = Top.idx
               /\ \A j \in 1..(Top.idx - 1) :
                     \E i \in DOMAIN log :
                        /\ log[i].ev = "scan"
                        /\ log[i].file = Top.filePath
                        /\ log[i].idx = j
               /\ Cardinality(TestsPassed(node)) <= 1
               /\ TestsPassed(node) = {} =>
                     /\ stack' = SetTop([Top EXCEPT !.idx = Top.idx + 1])
                     /\ UNCHANGED <<visitedSet, accumulator, disk, result>>
               /\ Len(stack') > Len(stack) =>
                     /\ TestsPassed(node) # {}
                     /\ Top'.filePath = resolveImportingPath(node.specifier)
                     /\ stack'[Len(stack)].idx = Top.idx
               /\ (Len(stack') = Len(stack) /\ TestsPassed(node) # {}) =>
                     /\ resolveImportingPath(node.specifier) = 0
                     /\ Top'.idx = Top.idx + 1
         ]_vars
    /\ [](\A f \in Files : \A i, j \in Occurrences("scan", f) :
            i < j => log[i].idx < log[j].idx)

\* C26 witness: the call succeeded on a root whose first statement holds a
\* nested import and whose second is a top-level import; the file of the
\* nested import was never looked for.
C26_Witness ==
    /\ Succeeded
    /\ call.number = 1
    /\ Len(disk[Root].body) = 2
    /\ disk[Root].body[1] \in {NestedNode(s) : s \in NestedSpecifiers}
    /\ Branch(disk[Root].body[2]) # "none"
    /\ resolveImportingPath(disk[Root].body[2].specifier) \notin {0, Root}
    /\ \A s \in NestedSpecifiers : ~disk[s].known /\ s \notin visitedSet
    /\ Cardinality(Occurrences("scan", Root)) = 2

\* "File not found" and "Failed to parse AST" for this path.
FileNotFoundFailure(filePath) ==
    makeSuccessFalseTypeError(Message("File not found", filePath))

ParseFailure(filePath) ==
    makeSuccessFalseTypeError(Message("Failed to parse AST", filePath))

\* C27: an engine invocation on a file that is already in the ledger still
\* fails when its depth is beyond maxDepth, or when the file is gone or no
\* longer parses: the validation comes before the visited check.  The whole
\* call then returns that failure, not a success.
C27_VisitedFileStillValidated ==
    /\ [][(Enter /\ Top.filePath \in visitedSet) =>
            /\ Top.depth > maxDepth =>
                  /\ Top'.pc = "return"
                  /\ Top'.rv = MaxDepthFailure(Top.filePath)
            /\ (Top.depth <= maxDepth /\ ~disk'[Top.filePath].exists) =>
                  /\ Top'.pc = "return"
                  /\ Top'.rv = FileNotFoundFailure(Top.filePath)
            /\ (Top.depth <= maxDepth /\ disk'[Top.filePath].exists
                    /\ ~disk'[Top.filePath].ast) =>
                  /\ Top'.pc = "return"
                  /\ Top'.rv = ParseFailure(Top.filePath)
            /\ visitedSet' = visitedSet
         ]_vars
    /\ [](\A i \in EventsOfCall :
            (Returned /\ log[i].ev = "fail" /\ log[i].file \in visitedSet) =>
                /\ ~result.value.success
                /\ result.value = FailureOf(log[i])
                /\ log[i].depth > maxDepth => result.value = MaxDepthFailure(log[i].file))

\* C27 witness: the first call inserted a file and met it again one level
\* beyond maxDepth, and returned the depth-exceeded failure; the root, in the
\* ledger, was then deleted, and the second call returned file-not-found.
C27_Witness ==
    /\ call.number = 2
    /\ call.changed
    /\ Failed
    /\ Root \in call.visitedSet
    /\ result.value = FileNotFoundFailure(Root)
    /\ \E i \in 1..call.from :
          /\ log[i].ev = "fail"
          /\ log[i].depth = maxDepth + 1
          /\ call.previous = MaxDepthFailure(log[i].file)
          /\ \E j \in 1..(i - 1) : log[j].ev = "add" /\ log[j].file = log[i].file

\* The messages of the failures validateCallbackConfig returns.
InvalidConfigMessages ==
    {Message("Invalid callbackConfig format.", 0),
     Message("Invalid callbackConfig.callback format.", 0)}

\* The callbackConfig of this run does not pass validateCallbackConfig.
InvalidConfig == WithCallback /\ ~validateCallbackConfig(input.callbackConfig).success

\* C28: in both callback variants an engine invocation validates
\* callbackConfig after the file path and options and before the visited
\* check: with an invalid callbackConfig a missing or unparsable file gives
\* the file's failure, and a file that exists and parses gives the
\* invalid-input failure, also when the file is already in the ledger; the
\* ledger stays as it was and no callback is called.
C28_ConfigValidatedBeforeVisitedCheck ==
    /\ [][(Enter /\ InvalidConfig /\ Top.depth <= maxDepth) =>
            /\ Top'.pc = "return"
            /\ ~disk'[Top.filePath].exists =>
                  Top'.rv = FileNotFoundFailure(Top.filePath)
            /\ (disk'[Top.filePath].exists /\ ~disk'[Top.filePath].ast) =>
                  Top'.rv = ParseFailure(Top.filePath)
            /\ (disk'[Top.filePath].exists /\ disk'[Top.filePath].ast) =>
                  /\ ~Top'.rv.success
                  /\ Len(Top'.rv.errors) = 1
                  /\ Top'.rv.errors[1].message \in InvalidConfigMessages
                  /\ log'[Len(log')].ev = "cfgfail"
            /\ UNCHANGED <<visitedSet, accumulator>>
         ]_vars
    /\ [][(Enter /\ WithCallback /\ ~InvalidConfig) =>
            log'[Len(log')].ev # "cfgfail"]_vars
    /\ [](InvalidConfig =>
            /\ call.number >= 1 => visitedSet = call.visitedSet
            /\ Len(Callbacks) = 0
            /\ accumulator = <<>>
            /\ Returned => ~result.value.success)

\* C28 witness: the root exists, parses and was in the ledger the caller
\* passed, and the call returned the invalid-input failure of callbackConfig.
C28_Witness ==
    /\ InvalidConfig
    /\ Failed
    /\ call.number = 1
    /\ Root \in call.visitedSet
    /\ disk[Root].exists /\ disk[Root].ast
    /\ log[Len(log)].ev = "cfgfail"
    /\ result.value.errors[1].message \in InvalidConfigMessages
    /\ visitedSet = call.visitedSet

\* The files reached from the files of S along references, never passing
\* through a file of L.
RECURSIVE ClosureOutside(_, _)
ClosureOutside(S, L) ==
    LET T == S \cup (UNION {References(f) : f \in S} \ L)
    IN IF T = S THEN S ELSE ClosureOutside(T, L)

\* The files reachable from the root along paths whose files are all outside
\* L, the root included when it is outside L.
ReachableOutside(L) == IF Root \in L THEN {} ELSE ClosureOutside({Root}, L)

\* The positions of the log where the current call called the callback.
CallbacksOfCall == {i \in EventsOfCall : log[i].ev = "callback"}

\* C29: when a top-level call given the ledger L0 succeeds, the ledger is L0
\* united with the files reachable from the root along paths whose files are
\* all outside L0, and the callback was called once for each file of the
\* ledger that is not in L0 and for no other.  The files are read as they
\* were during the call.
C29_LedgerIsBarrierClosure ==
    (Succeeded /\ call.number >= 1 /\ ~call.changed) =>
        /\ visitedSet = call.visitedSet \cup ReachableOutside(call.visitedSet)
        /\ WithCallback =>
              /\ {log[i].file : i \in CallbacksOfCall} = visitedSet \ call.visitedSet
              /\ Cardinality(CallbacksOfCall) = Cardinality(visitedSet \ call.visitedSet)

\* C29 witness: the root refers to a file of L0 that refers to a third file;
\* the call succeeded with the root added to L0 and called back, and the third
\* file left out of the ledger.
C29_Witness ==
    /\ Succeeded
    /\ call.number = 1
    /\ WithCallback
    /\ Cardinality(call.visitedSet) = 1
    /\ Root \notin call.visitedSet
    /\ References(Root) = call.visitedSet
    /\ \E f \in call.visitedSet : \E g \in References(f) : g \notin visitedSet
    /\ visitedSet = call.visitedSet \cup {Root}
    /\ Cardinality(CallbacksOfCall) = 1

\* Some failure logged at positions from + 1 .. to was raised in a frame
\* below the root.
FailedBelowRoot(from, to) ==
    \E i \in (from + 1)..to :
        log[i].ev \in FailureEvents /\ log[i].depth > input.startDepth

\* The files of the callbacks that came back, in the order they came back.
SettledFiles ==
    LET settled == SelectSeq(log, LAMBDA e : e.ev = "settled")
    IN [k \in DOMAIN settled |-> settled[k].file]

\* C30: nothing is rolled back on failure.  No step takes a path out of the
\* ledger or a mutation out of the accumulator; when a call returns a failure
\* raised below the root, the ledger holds the root and every path inserted
\* before the failure, the accumulator holds every mutation made, and the
\* failure carries neither; a retry on the same root with the same ledger then
\* returns success at once, inserting, scanning and calling back nothing.
C30_NoRollbackOnFailure ==
    /\ [][visitedSet \subseteq visitedSet' /\ IsPrefix(accumulator, accumulator')]_vars
    /\ []((Failed /\ call.number >= 1 /\ FailedBelowRoot(call.from, Len(log))) =>
            /\ Root \in visitedSet
            /\ {log[i].file : i \in {j \in DOMAIN log : log[j].ev = "add"}} \subseteq visitedSet
            /\ \E i \in EventsOfCall : log[i].ev = "add" /\ log[i].file = Root
            /\ accumulator = SettledFiles
            /\ DOMAIN result.value = {"success", "errors", "accumulator"}
            /\ result.value.accumulator = FALSE)
    /\ []((call.number = 2 /\ ~call.changed /\ ~call.previous.success
                /\ FailedBelowRoot(0, call.from)) =>
            /\ visitedSet = call.visitedSet
            /\ \A i \in EventsOfCall : log[i].ev \notin {"add", "callback", "scan"}
            /\ Returned => (result.value.success /\ Len(log) = call.from + 2)
            /\ result.state # "thrown")

\* C30 witness: the first call inserted the root, called back on it and
\* failed on a file it refers to, leaving another file of the root unread;
\* the second call succeeded at the visited check and left that file unread.
C30_Witness ==
    /\ call.number = 2
    /\ ~call.changed
    /\ ~call.previous.success
    /\ FailedBelowRoot(0, call.from)
    /\ Succeeded
    /\ WithCallback
    /\ Root \in call.visitedSet
    /\ Len(accumulator) >= 1
    /\ \E f \in References(Root) : ~disk[f].known /\ f \notin visitedSet
    /\ log[Len(log)].ev = "revisit"

\* The positions of the log where the current call inserted a path.
InsertionsOfCall == {i \in EventsOfCall : log[i].ev = "add"}

\* C31: in the callback variants the insertions the engine makes and the
\* callback invocations correspond one to one: the callback of a file is
\* called right after the file is inserted, before anything else is logged or
\* inserted, no file is inserted or called back twice, and when the call
\* returns success every callback of a file it inserted has come back without
\* failing.
C31_OneCallbackPerInsertion ==
    WithCallback =>
        /\ \A i \in DOMAIN log :
              /\ (log[i].ev = "add" /\ i < Len(log)) =>
                    (log[i + 1].ev = "callback" /\ log[i + 1].file = log[i].file)
              /\ (log[i].ev = "add" /\ i = Len(log)) =>
                    (stack # <<>> /\ Top.pc = "callback" /\ Top.filePath = log[i].file)
              /\ log[i].ev = "callback" =>
                    (i > 1 /\ log[i - 1].ev = "add" /\ log[i - 1].file = log[i].file)
        /\ \A f \in Files :
              /\ Cardinality(Occurrences("add", f)) <= 1
              /\ Cardinality(Occurrences("callback", f)) <= Cardinality(Occurrences("add", f))
        /\ (Succeeded /\ call.number >= 1) =>
              /\ Cardinality(CallbacksOfCall) = Cardinality(InsertionsOfCall)
              /\ \A i \in CallbacksOfCall :
                    \E m \in EventsOfCall :
                        m > i /\ log[m].ev = "settled" /\ log[m].file = log[i].file
              /\ \A i \in EventsOfCall : log[i].ev # "cbfail"

\* C31 witness: an async call on an empty ledger returned success after
\* inserting three files, each called back once and settled.
C31_Witness ==
    /\ variant = "async"
    /\ Succeeded
    /\ call.number = 1
    /\ call.visitedSet = {}
    /\ Cardinality(InsertionsOfCall) = 3
    /\ Cardinality(CallbacksOfCall) = 3
    /\ Cardinality({i \in EventsOfCall : log[i].ev = "settled"}) = 3

\* The running call hands the thread over in this step.
Yields == Switch \/ (\E filePath \in OtherRoots : CallOther(filePath))

\* C32: with two async calls interleaved on one ledger, the visited check
\* and the insertion of an engine invocation happen in one step with no
\* yield in between (a call yields only at an await or once it is over, never
\* from its entry to the start of its callback), so over both calls each
\* file is inserted at most once and called back at most once, right after
\* its insertion.
C32_CheckAndInsertAreAtomic ==
    /\ [][visitedSet' # visitedSet =>
            /\ Enter
            /\ Top.filePath \notin visitedSet
            /\ visitedSet' = visitedSet \cup {Top.filePath}
            /\ Top'.pc = "callback"]_vars
    /\ [][Yields =>
            (stack = <<>> \/ Top.pc \notin {"enter", "callback", "call", "return"})]_vars
    /\ [](\A f \in Files :
            /\ Cardinality(Occurrences("add", f)) <= 1
            /\ Cardinality(Occurrences("callback", f)) <= 1)
    /\ [](\A i \in DOMAIN log :
            (log[i].ev = "add" /\ i < Len(log)) =>
                (log[i + 1].ev = "callback" /\ log[i + 1].file = log[i].file))

\* C32 witness: the first call is suspended at the await of its root's
\* callback; the second call, made on another path, inserted that path, had
\* its callback settle, and has just met the first call's root in the ledger.
C32_Witness ==
    /\ other.running = 2
    /\ other.root # Root
    /\ other.result.state = "running"
    /\ other.stack[Len(other.stack)].pc = "await"
    /\ other.stack[Len(other.stack)].filePath = Root
    /\ Occurrences("add", other.root) # {}
    /\ Occurrences("settled", other.root) # {}
    /\ log[Len(log)].ev = "revisit"
    /\ log[Len(log)].file = Root

\* Of the two calls, call n: its result so far, its frames, its root.
ResultOfCall(n) == IF other.running = n THEN result ELSE other.result

StackOfCall(n) == IF other.running = n THEN stack ELSE other.stack

RootOfCall(n) == IF n = 1 THEN Root ELSE other.root

\* Call n has returned a success.
CallSucceeded(n) ==
    ResultOfCall(n).state = "returned" /\ ResultOfCall(n).value.success

\* The files reachable from the root of call n that are not in the ledger.
NotYetVisited(n) ==
    IF RootOfCall(n) = 0 THEN {} ELSE Closure({RootOfCall(n)}) \ visitedSet

\* Call n is awaiting the promise of a callback.
AwaitsCallback(n) ==
    StackOfCall(n) # <<>> /\ StackOfCall(n)[Len(StackOfCall(n))].pc = "await"

\* At some moment two callbacks were pending together: one was called
\* before the other had settled.
TwoWerePending ==
    \E i, j \in DOMAIN log :
        /\ i < j
        /\ log[i].ev = "callback"
        /\ log[j].ev = "callback"
        /\ ~\E m \in i..j : log[m].ev \in {"settled", "cbfail"} /\ log[m].file = log[i].file

\* C33: with two async calls interleaved on one ledger a call may return
\* success at the visited check of a file the other call inserted and has not
\* finished: the success of one call alone no longer tells that every file
\* reachable from its root is in the ledger nor that every callback has
\* settled.  What holds is the joint statement: files reachable from the root
\* of a successful call are missing from the ledger only while the other call
\* has not returned a success; the callbacks pending are those the calls are
\* awaiting, at most one per call and so at most two together.
C33_SuccessOnlyJointlyComplete ==
    /\ \A n \in {1, 2} :
          (CallSucceeded(n) /\ NotYetVisited(n) # {}) =>
              (other.root # 0 /\ ~CallSucceeded(3 - n))
    /\ Cardinality(Pending) = Cardinality({n \in {1, 2} : AwaitsCallback(n)})
    /\ \A i \in Pending : \E n \in {1, 2} :
          /\ AwaitsCallback(n)
          /\ StackOfCall(n)[Len(StackOfCall(n))].filePath = log[i].file

\* C33 witness: the second call has returned success, having met the first
\* call's root in the ledger, while the first call still awaits the callback
\* of that root and a file the root refers to is not in the ledger; before
\* that, the callbacks of the two roots were pending together.
C33_Witness ==
    /\ other.root \notin {0, Root}
    /\ CallSucceeded(2)
    /\ AwaitsCallback(1)
    /\ StackOfCall(1)[Len(StackOfCall(1))].filePath = Root
    /\ Root \in References(other.root)
    /\ Cardinality(Pending) = 1
    /\ NotYetVisited(2) # {}
    /\ TwoWerePending

Max(a, b) == IF a > b THEN a ELSE b

\* The scans of import-like statements logged so far.
ImportScans ==
    {i \in DOMAIN log :
        /\ log[i].ev = "scan"
        /\ Branch(disk[log[i].file].body[log[i].idx]) # "none"}

\* The engine invocations logged so far.
Invocations == {i \in DOMAIN log : log[i].ev = "enter"}

\* The levels from the depth of the top-level call to maxDepth.
LevelsAllowed == Max(maxDepth - input.startDepth + 1, 0)

\* C34 as stated: for a call made at a depth within maxDepth, the frames
\* never exceed min(maxDepth - initial depth, number of files) + 1.
C34_AsStated ==
    input.startDepth <= maxDepth =>
        Len(stack) <= Min(maxDepth - input.startDepth, NumFiles) + 1

\* C34, amended: every top-level call comes to an end, whatever maxDepth is,
\* when its callbacks come back; no statement is scanned twice, the engine
\* invocations are at most 1 plus the import-like statements scanned, and the
\* frames never exceed min(levels from the initial depth to maxDepth, number
\* of files) + 1: the invocation that fails on its depth, or that finds its
\* file in the ledger, is a frame too.
C34_TerminatesWithinBounds ==
    /\ <>Done
    /\ [](\A f \in Files : \A i, j \in Occurrences("scan", f) :
            log[i].idx = log[j].idx => i = j)
    /\ [](Cardinality(Invocations) <= 1 + Cardinality(ImportScans))
    /\ [](Len(stack) <= Min(LevelsAllowed, NumFiles) + 1)

\* C34 witness: with maxDepth 1 and a call made at depth 0 there are three
\* frames, the innermost returning the depth-exceeded failure.
C34_Witness ==
    /\ maxDepth = 1
    /\ input.startDepth = 0
    /\ Len(stack) = 3
    /\ Top.pc = "return"
    /\ Top.rv = MaxDepthFailure(Top.filePath)

====
